---- MODULE Spec2Model ----
(***************************************************************************)
(* Fetch-and-search scripts of the faculty180 explorer:                    *)
(*   paginated_get_user.py  - sequential page loop + name matcher          *)
(*   get_all_users.py       - windowed async user fetch, JSON dump         *)
(*   parallel_get_user.py   - process-pool page search                     *)
(* One run of one script is one behaviour; the script, the data source and *)
(* the environment options are chosen in Init.                             *)
(***************************************************************************)
EXTENDS Integers, Sequences, FiniteSets, TLC

VARIABLES
    variant,        \* which script runs: "seq", "async", "par", "both",
                    \* "g25", "getuser", "sign", "extract", "pubs"
    config,         \* the selected system and which environment values are set
    src_n,          \* number of records the backing source holds
    src_hits,       \* where the source holds sections naming the target
    page_size,      \* PAGE_SIZE / limit
    max_users,      \* MAX_USERS
    early_exit,     \* EARLY_EXIT
    max_workers,    \* WORKERS
    fail_budget,    \* page fetches the environment may still fail
    exit_code,      \* -1 while the process runs, else its exit status
    reported,       \* user ids the SIGINT handler displayed
    out_file,       \* content of <system>_users.json: <<"absent">> or <<"json", list>>
    seq,            \* paginated_get_user.find_user frame
    asy,            \* get_all_users.fetch_users_concurrent frame
    par,            \* parallel_get_user.find_user_parallel frame
    g25,            \* get_25_users.fetch_users frame
    gu,             \* get_user.find_user frame
    sg,             \* calls of the two generate_auth_header functions
    ex,             \* a call of get_all_users.extract_users_from_response
    pub             \* a call of get_user_publications.get_user_publications

vars == <<variant, config, src_n, src_hits, page_size, max_users, early_exit,
          max_workers, fail_budget, exit_code, reported, out_file, seq, asy, par,
          g25, gu, sg, ex, pub>>

env == <<variant, config, src_n, src_hits, page_size, max_users, early_exit,
         max_workers>>

\* the frames of the scripts that take no step in a run of the page loops
idle == <<g25, gu, sg, ex, pub>>

-----------------------------------------------------------------------------
(* Bounds of the model *)

MaxSmallN == 5
MaxSmallP == 2
MaxAsyncN == 7
MaxUsersOpt == 2
MaxFailures == 1
MaxSeqRequests == 60

-----------------------------------------------------------------------------
(* Strings are sequences of one-character strings *)

Lower(s) ==
    [i \in 1..Len(s) |->
        CASE s[i] = "A" -> "a"
          [] s[i] = "B" -> "b"
          [] s[i] = "C" -> "c"
          [] s[i] = "D" -> "d"
          [] OTHER -> s[i]]

\* Python's `sub in s` on strings
Contains(sub, s) ==
    \E i \in 0..(Len(s) - Len(sub)) : SubSeq(s, i + 1, i + Len(sub)) = sub

\* FIRSTNAME / LASTNAME of the run
FIRSTNAME == <<"A", "l">>
LASTNAME == <<"B", "o">>

firstname_lower == Lower(FIRSTNAME)
lastname_lower == Lower(LASTNAME)

name_variations ==
    << firstname_lower \o <<" ">> \o lastname_lower,
       lastname_lower \o <<",", " ">> \o firstname_lower,
       <<firstname_lower[1]>> \o <<".", " ">> \o lastname_lower,
       lastname_lower \o <<" ">> \o firstname_lower,
       lastname_lower \o <<",">> \o firstname_lower >>

QuickTerms == { <<"n","a","m","e">>, <<"a","u","t","h","o","r">>,
                <<"f","a","c","u","l","t","y">>, <<"p","e","r","s","o","n">>,
                <<"u","s","e","r">> }

NameTerms == { <<"n","a","m","e">>, <<"a","u","t","h","o","r">>,
               <<"f","a","c","u","l","t","y">>, <<"p","e","r","s","o","n">> }

DigitStr(n) ==
    CASE n = 0 -> <<"0">> [] n = 1 -> <<"1">> [] n = 2 -> <<"2">>
      [] n = 3 -> <<"3">> [] n = 4 -> <<"4">> [] n = 5 -> <<"5">>
      [] n = 6 -> <<"6">> [] n = 7 -> <<"7">> [] n = 8 -> <<"8">>
      [] OTHER -> <<"9">>

-----------------------------------------------------------------------------
(* Configuration, request signing and request building of get_all_users and *)
(* get_25_users.  A string of these scripts is a sequence of string pieces; *)
(* a value that may be None is a sequence of at most one string, <<>> for   *)
(* None.                                                                    *)

Systems == {"RPT", "FS", "FAR"}

ConfigNames == {"public_key", "private_key", "tenant_id", "database_id", "names"}

FullConfig(system) ==
    [system |-> system, public_key |-> TRUE, private_key |-> TRUE,
     tenant_id |-> TRUE, database_id |-> TRUE, names |-> TRUE]

Without(c, name) == [c EXCEPT ![name] = FALSE]

EnvValue(name) ==
    CASE name = "public_key" -> "pk"
      [] name = "private_key" -> "sk"
      [] name = "tenant_id" -> "T1"
      [] OTHER -> "DB1"

\* os.getenv(...) at module level: the value, or None when it is not set
Getenv(name) == IF config[name] THEN <<EnvValue(name)>> ELSE <<>>

\* how an f-string formats a value that may be None
FStr(v) == IF v = <<>> THEN "None" ELSE v[1]

\* how an f-string formats a natural number
RECURSIVE IntStr(_)
IntStr(n) == IF n < 10 THEN DigitStr(n) ELSE IntStr(n \div 10) \o DigitStr(n % 10)

\* datetime.now(UTC).strftime("%Y-%m-%d %H:%M:%S") at second `now` of the clock
Strftime(now) == <<"2026-11-04 00:00:">> \o (IF now < 10 THEN <<"0">> ELSE <<>>) \o IntStr(now)

\* hmac.new(key, msg, hashlib.sha1).digest() and base64.b64encode are library
\* functions: each is a constructor over its arguments, so two digests are
\* equal exactly when key and message are
HmacSha1(key, msg) == <<"hmac-sha1(", key, ",">> \o msg \o <<")">>
B64(digest) == <<"b64(">> \o digest \o <<")">>

NotRaised == ""

AuthResult(raised, signed, header, timestamp) ==
    [raised |-> raised, signed |-> signed, header |-> header, timestamp |-> timestamp]

\* a signer that puts two newlines where the canonical string has three
TwoNewlineString(method, timestamp, request_string) ==
    <<method, "\n", "\n">> \o timestamp \o <<"\n">> \o request_string

\* verb_request_string = f"{method}\n\n\n{timestamp}\n{request_string}"
VerbRequestString(method, timestamp, request_string) ==
    <<method, "\n", "\n", "\n">> \o timestamp \o <<"\n">> \o request_string

\* a signer that reads the clock even when it is handed a timestamp
ClockTimestamp(timestamp, now) == Strftime(now)

\* if timestamp is None: timestamp = datetime.now(UTC).strftime(...)
TimestampOrNow(timestamp, now) ==
    IF timestamp = <<>> THEN Strftime(now) ELSE timestamp[1]

\* get_all_users.generate_auth_header; PRIVATE_KEY.encode raises
\* AttributeError on None, the f-string formats a None PUBLIC_KEY as "None"
generate_auth_header(method, request_string, timestamp, now, PUBLIC_KEY, PRIVATE_KEY) ==
    LET ts == TimestampOrNow(timestamp, now)
        verb_request_string == VerbRequestString(method, ts, request_string)
    IN IF PRIVATE_KEY = <<>>
       THEN AuthResult("AttributeError", <<>>, <<>>, <<>>)
       ELSE AuthResult(NotRaised, verb_request_string,
                       <<"INTF ", FStr(PUBLIC_KEY), ":">>
                           \o B64(HmacSha1(PRIVATE_KEY[1], verb_request_string)),
                       ts)

\* get_25_users.generate_auth_header: bytes(None, "UTF-8") raises TypeError
\* before the digest is computed, "INTF " + None raises it after
get25_generate_auth_header(method, request_string, now, PUBLIC_KEY, PRIVATE_KEY) ==
    LET timestamp == Strftime(now)
        verb_request_string == <<method, "\n", "\n", "\n">> \o timestamp
                                   \o <<"\n">> \o request_string
    IN IF PRIVATE_KEY = <<>>
       THEN AuthResult("TypeError", <<>>, <<>>, <<>>)
       ELSE IF PUBLIC_KEY = <<>>
       THEN AuthResult("TypeError", verb_request_string, <<>>, <<>>)
       ELSE AuthResult(NotRaised, verb_request_string,
                       <<"INTF ", PUBLIC_KEY[1], ":">>
                           \o B64(HmacSha1(PRIVATE_KEY[1], verb_request_string)),
                       timestamp)

\* API_MAP[system]["host"]
ApiHost(system) ==
    IF system = "FAR" THEN <<"https://faculty180.interfolio.com/api.php">>
    ELSE <<"https://logic.interfolio.com">>

\* API_MAP[system]["base_request_string"] / ["request_string"]; the f-strings
\* are formatted when the module is loaded
ApiRequestString(system, TENANT_ID) ==
    CASE system = "RPT" ->
            <<"/byc/core/tenure/", FStr(TENANT_ID), "/institutions/",
              FStr(TENANT_ID), "/users/search">>
      [] system = "FS" ->
            <<"/byc/core/search/", FStr(TENANT_ID), "/institutions/",
              FStr(TENANT_ID), "/users/search">>
      [] OTHER -> <<"/users">>

\* a header of the dict handed to the HTTP client; none marks a None value
Header(name, value) == [name |-> name, value |-> value, none |-> FALSE]
HeaderOf(name, v) ==
    [name |-> name, value |-> IF v = <<>> THEN <<>> ELSE <<v[1]>>, none |-> v = <<>>]

\* a header dict that names the database whatever the system is
DatabaseHeaderAlways(system, DATABASE_ID) == <<HeaderOf("INTF-DatabaseID", DATABASE_ID)>>

\* if system == "FAR": headers["INTF-DatabaseID"] = DATABASE_ID
DatabaseHeader(system, DATABASE_ID) ==
    IF system = "FAR" THEN <<HeaderOf("INTF-DatabaseID", DATABASE_ID)>> ELSE <<>>

BuildHeaders(system, auth, DATABASE_ID) ==
    << Header("TimeStamp", auth.timestamp),
       Header("Authorization", auth.header),
       Header("Accept", <<"application/json">>) >>
    \o DatabaseHeader(system, DATABASE_ID)

\* a request string with the two parameters in the other order
PageLimitQuery(base_request, limit, page) ==
    base_request \o <<"?page=">> \o IntStr(page) \o <<"&limit=">> \o IntStr(limit)

\* request_string = f"{base_request}?limit={limit}&page={page}"
LimitPageQuery(base_request, limit, page) ==
    base_request \o <<"?limit=">> \o IntStr(limit) \o <<"&page=">> \o IntStr(page)

\* a URL built from the endpoint alone, without the query that was signed
BuildUrlNoQuery(system, request_string) ==
    ApiHost(system) \o ApiRequestString(system, Getenv("tenant_id"))

\* url = cfg["host"] + request_string
BuildUrl(system, request_string) == ApiHost(system) \o request_string

\* the request a call of fetch_page or fetch_users builds: what was signed,
\* the URL, the headers; raised names the exception of the signer, if any
Request(system, page, auth, url, headers) ==
    [system |-> system, page |-> page, raised |-> auth.raised,
     signed |-> auth.signed, url |-> url, headers |-> headers]

\* get_all_users.fetch_page up to the call of client.get
fetch_page(system, page, limit, now) ==
    LET request_string ==
            LimitPageQuery(ApiRequestString(system, Getenv("tenant_id")), limit, page)
        auth == generate_auth_header("GET", request_string, <<>>, now,
                                     Getenv("public_key"), Getenv("private_key"))
    IN Request(system, page, auth, BuildUrl(system, request_string),
               BuildHeaders(system, auth, Getenv("database_id")))

\* get_25_users.fetch_users up to the call of requests.get
fetch_users_25(system, now) ==
    LET request_string == ApiRequestString(system, Getenv("tenant_id"))
        auth == get25_generate_auth_header("GET", request_string, now,
                                           Getenv("public_key"), Getenv("private_key"))
    IN Request(system, 0, auth, BuildUrl(system, request_string),
               BuildHeaders(system, auth, Getenv("database_id")))

HasNoneHeader(request) ==
    \E k \in 1..Len(request.headers) : request.headers[k].none

\* httpx refuses a header whose value is None: client.get raises TypeError
\* and nothing is sent
HttpxRaises(request) == request.raised # NotRaised \/ HasNoneHeader(request)

-----------------------------------------------------------------------------
(* Records of the activity API.  An activity is                             *)
(*   [userid, facultyid : Nat (0 = absent), fields : Seq([key, isstr, value])] *)
(* a section is [is_section, name, activities].                             *)

Field(k, v) == [key |-> k, isstr |-> TRUE, value |-> v]

\* str(activity): the dict's repr, keys in insertion order
FieldRepr(f) ==
    <<"'">> \o f.key \o <<"'", ":", " ">> \o
    (IF f.isstr THEN <<"'">> \o f.value \o <<"'">> ELSE f.value)

RECURSIVE FieldsRepr(_)
FieldsRepr(fs) ==
    IF fs = <<>> THEN <<>>
    ELSE FieldRepr(Head(fs)) \o
         (IF Tail(fs) = <<>> THEN <<>> ELSE <<",", " ">> \o FieldsRepr(Tail(fs)))

ActivityStr(a) ==
    <<"{">> \o
    (IF a.userid # 0
        THEN <<"'","u","s","e","r","i","d","'",":"," ">> \o DigitStr(a.userid) \o <<",", " ">>
        ELSE <<>>) \o
    (IF a.facultyid # 0
        THEN <<"'","f","a","c","u","l","t","y","i","d","'",":"," ">> \o DigitStr(a.facultyid) \o <<",", " ">>
        ELSE <<>>) \o
    <<"'","f","i","e","l","d","s","'",":"," ","{">> \o FieldsRepr(a.fields) \o <<"}","}">>

KeyHasTerm(key, terms) == \E t \in terms : Contains(t, Lower(key))

\* any(key for key in fields.keys() if any(term in key.lower() ...))
HasNameFields(fields) ==
    \E i \in 1..Len(fields) :
        fields[i].key # <<>> /\ KeyHasTerm(fields[i].key, QuickTerms)

AnyVariationIn(s) == \E v \in 1..Len(name_variations) : Contains(name_variations[v], s)

\* first pass: the condition under which one field ends the pass with a match
FirstPassHit(f) ==
    /\ f.isstr
    /\ Len(f.value) > 2
    /\ KeyHasTerm(f.key, NameTerms)
    /\ \/ AnyVariationIn(Lower(f.value))
       \/ Contains(firstname_lower, Lower(f.value)) /\ Contains(lastname_lower, Lower(f.value))

NoMatch == [found |-> FALSE, field |-> <<>>, value |-> <<>>]

\* the least index of a non-empty set of indexes
FirstOf(hits) == CHOOSE j \in hits : \A k \in hits : j <= k

FieldMatch(f) == [found |-> TRUE, field |-> f.key, value |-> f.value]

\* the first pass ends at the first field that matches
FirstPassAt(fields, hits) ==
    IF hits = {} THEN NoMatch ELSE FieldMatch(fields[FirstOf(hits)])

FirstPass(fields) ==
    FirstPassAt(fields, {i \in 1..Len(fields) : FirstPassHit(fields[i])})

\* for key, value in fields.items(): if isinstance(value, str) and name_var
\* in value.lower(): the first such field is the matching field, if any
SecondPassField(fields, holds) ==
    IF holds = {} THEN [found |-> TRUE, field |-> <<>>, value |-> <<>>]
    ELSE FieldMatch(fields[FirstOf(holds)])

SecondPassVariation(fields, name_var) ==
    SecondPassField(fields,
        {i \in 1..Len(fields) :
            fields[i].isstr /\ Contains(name_var, Lower(fields[i].value))})

\* for name_var in name_variations: if name_var in activity_str
SecondPassOn(fields, hits) ==
    IF hits = {} THEN NoMatch
    ELSE SecondPassVariation(fields, name_variations[FirstOf(hits)])

\* second pass: whole-record search, then the field that holds the variation
SecondPassIn(fields, activity_str) ==
    SecondPassOn(fields,
        {v \in 1..Len(name_variations) : Contains(name_variations[v], activity_str)})

SecondPass(a) == SecondPassIn(a.fields, Lower(ActivityStr(a)))

\* if not found_match: the second pass
FirstOrSecond(first, a) == IF first.found THEN first ELSE SecondPass(a)

MatchActivity(a) == FirstOrSecond(FirstPass(a.fields), a)

\* activity.get("userid") or activity.get("facultyid")
UserIdOf(a) == IF a.userid # 0 THEN a.userid ELSE a.facultyid

\* the found_users entry written for a match
Entry(uid, section_name, m) ==
    [user_id |-> uid,
     sections_found |-> <<section_name>>,
     matching_fields |-> IF m.field # <<>> THEN <<[field |-> m.field, value |-> m.value]>>
                         ELSE <<>>]

\* found_users is an insertion-ordered dict: a sequence of entries, keyed by user_id
Keys(found) == [i \in 1..Len(found) |-> found[i].user_id]
KeySet(found) == {found[i].user_id : i \in 1..Len(found)}

-----------------------------------------------------------------------------
(* The backing data source: src_n records; the sections listed in src_hits  *)
(* name the target, every other section holds one activity of someone else. *)

S_name == <<"n","a","m","e">>
S_title == <<"t","i","t","l","e">>
S_username == <<"u","s","e","r">>

FillerSection ==
    [is_section |-> TRUE, name |-> "Service",
     activities |-> << [userid |-> 9, facultyid |-> 0,
                        fields |-> << Field(S_name, <<"C","y"," ","D","i">>) >>] >>]

\* kind "name": the target's name sits in a name field (first pass);
\* kind "whole": it sits in a field only the whole-record search reaches
HitSection(h) ==
    [is_section |-> TRUE, name |-> "Teaching",
     activities |->
        << [userid |-> 0, facultyid |-> 0, fields |-> <<>>],
           IF h.kind = "name"
           THEN [userid |-> h.uid, facultyid |-> 0,
                 fields |-> << Field(S_title, <<"x">>),
                               Field(S_name, <<"A","l"," ","B","o">>) >>]
           ELSE [userid |-> 0, facultyid |-> h.uid,
                 fields |-> << Field(S_username, <<"a","b">>),
                               Field(S_title, <<"b","y"," ","B","o",","," ","A","l">>) >>] >>]

S_author == <<"a","u","t","h","o","r">>
S_tags == <<"t","a","g","s">>
V_AlBo == <<"A","l"," ","B","o">>

\* the field maps of the activities the matcher is tried on, by kind:
\*   exact_name        the exact "Al Bo" as the value of a name field
\*   exact_title       the exact "Al Bo" as the value of a field that is not
\*                     name-like
\*   exact_user_title  the same next to a field whose key contains "user"
\*   exact_inside      "Dr Al Bo" in a name field, after another field
\*   apart             both names, apart, in an author field
\*   reversed_title    "Bo, Al" in a field that is not name-like
\*   list_value        a list holding "Al Bo", next to a "user" field
\*   other             somebody else's name
CaseKinds == {"exact_name", "exact_title", "exact_user_title", "exact_inside",
              "apart", "reversed_title", "list_value", "other"}

CaseFields(kind) ==
    CASE kind = "exact_name" -> << Field(S_name, V_AlBo) >>
      [] kind = "exact_title" -> << Field(S_title, V_AlBo) >>
      [] kind = "exact_user_title" ->
            << Field(S_username, <<"a","b">>), Field(S_title, V_AlBo) >>
      [] kind = "exact_inside" ->
            << Field(S_title, <<"x">>), Field(S_name, <<"D","r"," ">> \o V_AlBo) >>
      [] kind = "apart" -> << Field(S_author, <<"B","o"," ","&"," ","A","l">>) >>
      [] kind = "reversed_title" -> << Field(S_title, <<"B","o",","," ","A","l">>) >>
      [] kind = "list_value" ->
            << Field(S_username, <<"a","b">>),
               [key |-> S_tags, isstr |-> FALSE,
                value |-> <<"[","'">> \o V_AlBo \o <<"'","]">>] >>
      [] OTHER -> << Field(S_name, <<"C","y"," ","D","i">>) >>

\* a section holding the one activity of kind h.kind, of user h.uid
CaseSection(h) ==
    [is_section |-> TRUE, name |-> IF h.pos = 1 THEN "Teaching" ELSE "Service",
     activities |-> << [userid |-> h.uid, facultyid |-> 0,
                        fields |-> CaseFields(h.kind)] >>]

SectionAt(i) ==
    IF \E h \in src_hits : h.pos = i
    THEN LET h == CHOOSE g \in src_hits : g.pos = i
         IN IF h.kind \in CaseKinds THEN CaseSection(h) ELSE HitSection(h)
    ELSE FillerSection

\* far.get_user_data(limit, offset): the records offset+1 .. offset+limit that exist
PageData(limit, offset) ==
    LET cnt == IF src_n - offset < 0 THEN 0
               ELSE IF src_n - offset < limit THEN src_n - offset ELSE limit
    IN [i \in 1..cnt |-> SectionAt(offset + i)]

-----------------------------------------------------------------------------
(* paginated_get_user.search_batch_for_user                                 *)
(* st = [found, stop, examined]: found_users, the value returned, and the   *)
(* number of activities the loops have looked at                            *)

\* a limit test that stops one match late
EarlyExitPassed(early, n, maxu) == early /\ n > maxu

\* early_exit and len(found_users) >= max_users
EarlyExitReached(early, n, maxu) == early /\ n >= maxu

\* a matcher that looks at every activity, found before or not
NeverFound(uid, found) == FALSE

\* if str(user_id) in found_users: continue
AlreadyFound(uid, found) == uid \in KeySet(found)

\* found_users[str(user_id)] = {...}: a new key is appended, the value of a
\* key already there is replaced
DictSet(found, entry) ==
    IF entry.user_id \in KeySet(found)
    THEN [i \in 1..Len(found) |->
             IF found[i].user_id = entry.user_id THEN entry ELSE found[i]]
    ELSE Append(found, entry)

\* the match is stored and the early-exit limit is tested
StoreMatch(st, found, maxu, early) ==
    [st EXCEPT !.found = found, !.stop = EarlyExitReached(early, Len(found), maxu)]

\* the `continue`s of the loop body, and the store when the activity matched
OnActivity(a, uid, section_name, st, m, maxu, early) ==
    IF uid = 0 \/ AlreadyFound(uid, st.found) \/ ~HasNameFields(a.fields) \/ ~m.found
    THEN st
    ELSE StoreMatch(st, DictSet(st.found, Entry(uid, section_name, m)), maxu, early)

\* the body of `for activity in activities` for one activity
SearchActivity(a, section_name, st, maxu, early) ==
    OnActivity(a, UserIdOf(a), section_name, [st EXCEPT !.examined = @ + 1],
               MatchActivity(a), maxu, early)

RECURSIVE SearchActivities(_, _, _, _, _)
SearchActivities(acts, section_name, st, maxu, early) ==
    IF acts = <<>> \/ st.stop THEN st
    ELSE SearchActivities(Tail(acts), section_name,
                          SearchActivity(Head(acts), section_name, st, maxu, early),
                          maxu, early)

\* the body of `for section_num, record in enumerate(batch_data)` for one record
SearchSection(r, st, maxu, early) ==
    IF ~r.is_section THEN st
    ELSE LET st1 == SearchActivities(r.activities, r.name, st, maxu, early)
         IN [st1 EXCEPT !.stop = @ \/ EarlyExitReached(early, Len(st1.found), maxu)]

RECURSIVE SearchSections(_, _, _, _)
SearchSections(batch, st, maxu, early) ==
    IF batch = <<>> \/ st.stop THEN st
    ELSE SearchSections(Tail(batch), SearchSection(Head(batch), st, maxu, early),
                        maxu, early)

search_batch_for_user(batch_data, found_users, maxu, early, examined) ==
    SearchSections(batch_data, [found |-> found_users, stop |-> FALSE, examined |-> examined],
                   maxu, early)

-----------------------------------------------------------------------------
(* paginated_get_user.find_user                                             *)

\* "the apparent total of 54 sections"
ApparentTotal == 54

Offset(page, limit) == (page - 1) * limit

\* a loop body that forgets `page += 1`
SeqSamePage(page) == page

SeqNextPage(page) == page + 1

SeqSafetyStopStrict(page, len, limit) ==
    page > 1 /\ len = limit /\ Offset(page, limit) > ApparentTotal

\* the hard-coded stop of the page loop
SeqSafetyStop(page, len, limit) ==
    page > 1 /\ len = limit /\ Offset(page, limit) >= ApparentTotal

SeqInit ==
    [pc |-> "start", page |-> 0, found |-> <<>>, total |-> 0,
     requested |-> <<>>, searched |-> {}, examined |-> 0,
     failed |-> FALSE, cutoff |-> FALSE, short_seen |-> FALSE, fallback |-> FALSE,
     sigint |-> FALSE, result |-> <<>>]

SeqEnabled == variant \in {"seq", "both"} /\ exit_code = -1

\* found_users = {}; page = 1; total_sections_processed = 0
SeqStart ==
    /\ SeqEnabled
    /\ seq.pc = "start"
    /\ config.names
    /\ seq' = [seq EXCEPT !.pc = "fetch", !.page = 1]
    /\ UNCHANGED <<env, idle, fail_budget, exit_code, reported, out_file, asy, par>>

\* page_data = far.get_user_data(limit=page_size, offset=offset) returns
SeqFetchOk ==
    /\ SeqEnabled
    /\ seq.pc = "fetch"
    /\ Len(seq.requested) < MaxSeqRequests
    /\ seq' = [seq EXCEPT !.pc = "got", !.requested = Append(@, seq.page)]
    /\ UNCHANGED <<env, idle, fail_budget, exit_code, reported, out_file, asy, par>>

\* an except clause that goes round the loop again
SeqRetryAfterFailure(found) == "fetch"

\* the except clause: break when something was found, else return None
SeqAfterFailure(found) == IF found # <<>> THEN "after_loop" ELSE "returned"

\* the fetch raises: return what was found, or None when nothing was
SeqFetchFail ==
    /\ SeqEnabled
    /\ seq.pc = "fetch"
    /\ Len(seq.requested) < MaxSeqRequests
    /\ fail_budget > 0
    /\ fail_budget' = fail_budget - 1
    /\ seq' = [seq EXCEPT !.requested = Append(@, seq.page),
                          !.failed = TRUE,
                          !.pc = SeqAfterFailure(seq.found),
                          !.result = <<>>]
    /\ UNCHANGED <<env, idle, exit_code, reported, out_file, asy, par>>

\* the rest of the loop body, from `if not page_data` to `page += 1`
SeqProcess ==
    /\ SeqEnabled
    /\ seq.pc = "got"
    /\ LET offset == Offset(seq.page, page_size)
           page_data == PageData(page_size, offset)
           st == search_batch_for_user(page_data, seq.found, max_users, early_exit,
                                       seq.examined)
       IN IF page_data = <<>>
          THEN seq' = [seq EXCEPT !.pc = "after_loop", !.short_seen = TRUE]
          ELSE seq' = [seq EXCEPT
                    !.found = st.found,
                    !.examined = st.examined,
                    !.total = @ + Len(page_data),
                    !.searched = @ \cup {offset + i : i \in 1..Len(page_data)},
                    !.short_seen = Len(page_data) < page_size,
                    !.cutoff = ~st.stop /\ Len(page_data) >= page_size
                               /\ SeqSafetyStop(seq.page, Len(page_data), page_size),
                    !.page = IF st.stop \/ Len(page_data) < page_size
                                \/ SeqSafetyStop(seq.page, Len(page_data), page_size)
                             THEN @ ELSE SeqNextPage(@),
                    !.pc = IF st.stop \/ Len(page_data) < page_size
                              \/ SeqSafetyStop(seq.page, Len(page_data), page_size)
                           THEN "after_loop" ELSE "fetch"]
    /\ UNCHANGED <<env, idle, fail_budget, exit_code, reported, out_file, asy, par>>

\* after the loop: return the ids found, or try the last-name search on the
\* first page and return None
SeqFinish ==
    /\ SeqEnabled
    /\ seq.pc = "after_loop"
    /\ seq' = [seq EXCEPT !.pc = "returned",
                          !.result = Keys(seq.found),
                          !.fallback = (seq.found = <<>>)]
    /\ UNCHANGED <<env, idle, fail_budget, exit_code, reported, out_file, asy, par>>

SeqNext == SeqStart \/ SeqFetchOk \/ SeqFetchFail \/ SeqProcess \/ SeqFinish

-----------------------------------------------------------------------------
(* get_all_users: the users API, extract_users_from_response,               *)
(* fetch_users_concurrent, save_json                                        *)

CONCURRENT_PAGES == 5

\* A response body: [type |-> "list", items], [type |-> "dict", entries] with
\* entries a sequence of [key, type, value], or [type |-> "other"]
DictGet(entries, key) ==
    (CHOOSE i \in 1..Len(entries) : entries[i].key = key) 

DictHas(entries, key) == \E i \in 1..Len(entries) : entries[i].key = key

\* An object of the response: its Python type with its content. A list has
\* its items as content, None has none
PyList(items) == [type |-> "list", value |-> items]
PyNone == [type |-> "none", value |-> <<>>]

\* page_data[key]: the object stored under the key
DictValue(entries, key) ==
    [type |-> entries[DictGet(entries, key)].type,
     value |-> entries[DictGet(entries, key)].value]

\* the object extract_users_from_response returns
ExtractReturn(page_data) ==
    IF page_data.type = "list" THEN PyList(page_data.items)
    ELSE IF page_data.type = "dict"
    THEN IF DictHas(page_data.entries, "data")
            THEN DictValue(page_data.entries, "data")
         ELSE IF DictHas(page_data.entries, "users")
            THEN DictValue(page_data.entries, "users")
         ELSE IF DictHas(page_data.entries, "results")
            THEN DictValue(page_data.entries, "results")
         ELSE IF page_data.entries # <<>> THEN PyList(<<page_data>>) ELSE PyList(<<>>)
    ELSE PyList(<<>>)

\* the content of the object returned
extract_users_from_response(page_data) == ExtractReturn(page_data).value

\* the users API: record k of the source is the number k; page `page` of
\* size `limit` comes wrapped as {"data": [...]}
UsersResponse(page, limit) ==
    LET offset == Offset(page, limit)
        cnt == IF src_n - offset < 0 THEN 0
               ELSE IF src_n - offset < limit THEN src_n - offset ELSE limit
    IN [type |-> "dict",
        entries |-> << [key |-> "data", type |-> "list",
                         value |-> [i \in 1..cnt |-> offset + i]] >>]

\* extract_users_from_response called on its own
MaxEntries == 2
ResponseKeys == {"data", "users", "results", "id"}
ResponseValues == {PyList(<<>>), PyList(<<1>>), PyList(<<2, 3>>), PyNone}

\* the dicts of at most n entries with distinct keys, in every key order
RECURSIVE DictsUpTo(_)
DictsUpTo(n) ==
    IF n = 0 THEN {<<>>}
    ELSE LET shorter == DictsUpTo(n - 1)
         IN shorter \cup
            {Append(e, [key |-> k, type |-> v.type, value |-> v.value]) :
                e \in {d \in shorter : Len(d) = n - 1},
                k \in ResponseKeys, v \in ResponseValues}

Responses ==
    {[type |-> "list", items |-> v.value] : v \in ResponseValues \ {PyNone}}
    \cup {[type |-> "dict", entries |-> e] :
            e \in {d \in DictsUpTo(MaxEntries) :
                      \A i, j \in 1..Len(d) : d[i].key = d[j].key => i = j}}
    \cup {[type |-> "other"]}

ExInit == [pc |-> "start", page_data |-> [type |-> "other"], returned |-> PyNone]

ExInputs == {[ExInit EXCEPT !.page_data = r] : r \in Responses}

ExCall ==
    /\ variant = "extract"
    /\ ex.pc = "start"
    /\ ex' = [ex EXCEPT !.pc = "returned", !.returned = ExtractReturn(ex.page_data)]
    /\ UNCHANGED <<env, fail_budget, exit_code, reported, out_file, seq, asy, par,
                   g25, gu, sg, pub>>

-----------------------------------------------------------------------------
(* get_user_publications.  A value that may be None is a sequence of at     *)
(* most one element, <<>> for None; a user id is [t, n] with t its Python   *)
(* type and n the number it is or spells (0 for None).  The activities of the model hold title, yearinfo, dateinfo, type, *)
(* activity_type and user_id; the other keys simplify reads are absent, so  *)
(* their fields of the simplified record are None in every publication.     *)

pub_types == {"publication", "scholarly_work"}

PubWords ==
    { <<"j","o","u","r","n","a","l">>, <<"p","a","p","e","r">>, <<"b","o","o","k">>,
      <<"c","h","a","p","t","e","r">>, <<"c","o","n","f","e","r","e","n","c","e">>,
      <<"p","r","o","c","e","e","d","i","n","g">>, <<"r","e","p","o","r","t">>,
      <<"p","u","b","l","i","c","a","t","i","o","n">> }

\* a or b, on values that are None or truthy
PyOr(a, b) == IF a # <<>> THEN a ELSE b

\* a or b, on lists: the empty list is falsy
ListOr(a, b) == IF a # <<>> THEN a ELSE b

is_publication(activity) ==
    LET text == Lower(IF activity.type # <<>> THEN activity.type[1] ELSE <<>>)
    IN \/ activity.activity_type # <<>> /\ activity.activity_type[1] \in pub_types
       \/ \E word \in PubWords : Contains(word, text)

simplify(activity) ==
    [title |-> activity.title,
     year |-> PyOr(activity.yearinfo, activity.dateinfo),
     type |-> activity.type]

\* str(x) of a user id
UserIdStr(x) ==
    IF x.t \in {"int", "str"} THEN IntStr(x.n)
    ELSE <<"N","o","n","e">>

\* a loop that appends every publication
KeyNeverSeen(key, seen) == FALSE

\* key in seen
KeySeen(key, seen) == key \in seen

\* for p in publications: the de-duplication by (title, year)
RECURSIVE Dedupe(_, _, _)
Dedupe(publications, seen, deduped) ==
    IF publications = <<>> THEN deduped
    ELSE LET p == Head(publications)
             key == <<p.title, p.year>>
         IN IF KeySeen(key, seen)
            THEN Dedupe(Tail(publications), seen, deduped)
            ELSE Dedupe(Tail(publications), seen \cup {key}, Append(deduped, p))

Simplified(activities) ==
    [i \in 1..Len(activities) |-> simplify(activities[i])]

\* [a for a in all_activities if str(a.get("user_id")) == str(user_id)]
UserActs(all_activities, user_id) ==
    SelectSeq(all_activities, LAMBDA a : UserIdStr(a.user_id) = UserIdStr(user_id))

get_user_publications(user_id, profile, all_activities) ==
    LET profile_activities == ListOr(profile.activities, profile.publications)
        publications ==
            Simplified(SelectSeq(profile_activities, is_publication))
            \o Simplified(SelectSeq(UserActs(all_activities, user_id), is_publication))
    IN [user_id |-> user_id, publications |-> Dedupe(publications, {}, <<>>)]

\* get_user_publications called on its own
MaxProfile == 1
MaxActivities == 2

PubTitles == {<<"T1">>, <<"T2">>}
PubYears == {[yearinfo |-> <<"2020">>, dateinfo |-> <<>>],
             [yearinfo |-> <<>>, dateinfo |-> <<"2021">>]}
Book == [type |-> << <<"B","o","o","k">> >>, activity_type |-> <<>>]
Publication == [type |-> <<>>, activity_type |-> <<"publication">>]
Talk == [type |-> << <<"T","a","l","k">> >>, activity_type |-> <<"other">>]

TestUser == [t |-> "str", n |-> 1]

PubActivity(title, y, k, uid) ==
    [title |-> title, yearinfo |-> y.yearinfo, dateinfo |-> y.dateinfo,
     type |-> k.type, activity_type |-> k.activity_type, user_id |-> uid]

\* the activities of a profile
ProfileActivities ==
    {PubActivity(t, y, Publication, [t |-> "none", n |-> 0]) :
        t \in PubTitles, y \in PubYears}
    \cup {PubActivity(<<"T1">>, y, Talk, [t |-> "none", n |-> 0]) :
            y \in {[yearinfo |-> <<"2020">>, dateinfo |-> <<>>]}}

\* the comprehensive activities: those of the user, the id a number, one of
\* the user with the id a string, one of somebody else and one without id
AllActivities ==
    {PubActivity(t, y, Book, [t |-> "int", n |-> 1]) :
        t \in PubTitles, y \in PubYears}
    \cup {PubActivity(<<"T1">>, y, Talk, [t |-> "int", n |-> 1]) :
            y \in {[yearinfo |-> <<"2020">>, dateinfo |-> <<>>]}}
    \cup {PubActivity(<<"T1">>, y, Publication, u) :
            y \in {[yearinfo |-> <<"2020">>, dateinfo |-> <<>>]},
            u \in {[t |-> "str", n |-> 1], [t |-> "int", n |-> 2],
                   [t |-> "none", n |-> 0]}}

RECURSIVE ListsUpTo(_, _)
ListsUpTo(S, n) ==
    IF n = 0 THEN {<<>>}
    ELSE LET shorter == ListsUpTo(S, n - 1)
         IN shorter \cup {Append(q, x) : q \in {l \in shorter : Len(l) = n - 1}, x \in S}

PubInit ==
    [pc |-> "start", user_id |-> TestUser,
     profile |-> [activities |-> <<>>, publications |-> <<>>],
     all_activities |-> <<>>,
     returned |-> [user_id |-> TestUser, publications |-> <<>>]]

PubInputs ==
    {[PubInit EXCEPT !.profile = [activities |-> IF t[3] THEN t[1] ELSE <<>>,
                                  publications |-> IF t[3] THEN <<>> ELSE t[1]],
                     !.all_activities = t[2]] :
        t \in ListsUpTo(ProfileActivities, MaxProfile)
               \X ListsUpTo(AllActivities, MaxActivities) \X BOOLEAN}

PubCall ==
    /\ variant = "pubs"
    /\ pub.pc = "start"
    /\ pub' = [pub EXCEPT !.pc = "returned",
                          !.returned = get_user_publications(pub.user_id, pub.profile,
                                                             pub.all_activities)]
    /\ UNCHANGED <<env, fail_budget, exit_code, reported, out_file, seq, asy, par,
                   g25, gu, sg, ex>>

AsyInit ==
    [pc |-> "start", page |-> 0, collected |-> <<>>, page_numbers |-> <<>>,
     tasks |-> <<>>, i |-> 0, pages_with_data |-> 0,
     requested |-> <<>>, failed |-> FALSE, fail_handled |-> FALSE,
     got_records |-> FALSE, short_seen |-> FALSE, sigint |-> FALSE,
     sent |-> <<>>, raised |-> FALSE, result |-> <<>>]

AsyEnabled == variant = "async" /\ exit_code = -1

AsyFrame == UNCHANGED <<env, idle, exit_code, reported, out_file, seq, par>>

\* the second of the clock at which the k-th request of a run is built
RequestsPerSecond == 3
ClockAt(k) == k \div RequestsPerSecond

\* collected_users = []; fetch_page builds the request for page 1 and, unless
\* the signer or the client raised, the request goes out
AsyStart ==
    /\ AsyEnabled
    /\ asy.pc = "start"
    /\ LET request == fetch_page(config.system, 1, page_size, ClockAt(0))
       IN asy' = IF HttpxRaises(request)
                 THEN [asy EXCEPT !.pc = "first_raised", !.collected = <<>>]
                 ELSE [asy EXCEPT !.pc = "first_fetch", !.collected = <<>>,
                                  !.requested = Append(@, 1),
                                  !.sent = Append(@, request)]
    /\ UNCHANGED fail_budget
    /\ AsyFrame

\* the AttributeError or TypeError raised while the first request was built
\* is an Exception: "Failed to fetch first page", return []
AsyFirstRaised ==
    /\ AsyEnabled
    /\ asy.pc = "first_raised"
    /\ asy' = [asy EXCEPT !.pc = "returned", !.raised = TRUE, !.result = <<>>]
    /\ UNCHANGED fail_budget
    /\ AsyFrame

AsyFirstOk ==
    /\ AsyEnabled
    /\ asy.pc = "first_fetch"
    /\ asy' = [asy EXCEPT !.pc = "first_got", !.got_records = src_n > 0]
    /\ UNCHANGED fail_budget
    /\ AsyFrame

\* except Exception: "Failed to fetch first page", return []
AsyFirstFail ==
    /\ AsyEnabled
    /\ asy.pc = "first_fetch"
    /\ fail_budget > 0
    /\ fail_budget' = fail_budget - 1
    /\ asy' = [asy EXCEPT !.pc = "returned", !.failed = TRUE, !.result = <<>>]
    /\ AsyFrame

AsyFirstProcess ==
    /\ AsyEnabled
    /\ asy.pc = "first_got"
    /\ LET first_page_users == extract_users_from_response(UsersResponse(1, page_size))
       IN IF first_page_users = <<>>
          THEN asy' = [asy EXCEPT !.pc = "returned", !.short_seen = TRUE,
                                  !.result = <<>>]
          ELSE IF Len(first_page_users) < page_size
          THEN asy' = [asy EXCEPT !.pc = "returned",
                                  !.collected = @ \o first_page_users,
                                  !.short_seen = TRUE,
                                  !.result = asy.collected \o first_page_users]
          ELSE asy' = [asy EXCEPT !.pc = "submit",
                                  !.collected = @ \o first_page_users,
                                  !.page = 2]
    /\ UNCHANGED fail_budget
    /\ AsyFrame

\* the batch of CONCURRENT_PAGES tasks is built and handed to asyncio.gather
AsySubmit ==
    /\ AsyEnabled
    /\ asy.pc = "submit"
    /\ LET pns == [i \in 1..CONCURRENT_PAGES |-> asy.page + i - 1]
           requests == [i \in 1..CONCURRENT_PAGES |->
                           fetch_page(config.system, pns[i], page_size,
                                      ClockAt(Len(asy.sent) + i - 1))]
       IN asy' = [asy EXCEPT !.pc = "gather",
                             !.page_numbers = pns,
                             !.tasks = [i \in 1..CONCURRENT_PAGES |->
                                           IF HttpxRaises(requests[i])
                                           THEN "fail" ELSE "pending"],
                             !.requested = @ \o pns,
                             !.sent = @ \o SelectSeq(requests,
                                              LAMBDA r : ~HttpxRaises(r))]
    /\ UNCHANGED fail_budget
    /\ AsyFrame

AsyTaskOk(i) ==
    /\ AsyEnabled
    /\ asy.pc = "gather"
    /\ asy.tasks[i] = "pending"
    /\ asy' = [asy EXCEPT !.tasks[i] = "ok",
                          !.got_records = @ \/ Offset(asy.page_numbers[i], page_size) < src_n]
    /\ UNCHANGED fail_budget
    /\ AsyFrame

AsyTaskFail(i) ==
    /\ AsyEnabled
    /\ asy.pc = "gather"
    /\ asy.tasks[i] = "pending"
    /\ fail_budget > 0
    /\ fail_budget' = fail_budget - 1
    /\ asy' = [asy EXCEPT !.tasks[i] = "fail", !.failed = TRUE]
    /\ AsyFrame

\* a wait that returns with the first task that has finished
GatherFirstCompleted(tasks) == \E i \in 1..Len(tasks) : tasks[i] # "pending"

\* asyncio.gather(*tasks, return_exceptions=True) returns once every task has
\* a result or an exception
GatherReturns(tasks) == \A i \in 1..Len(tasks) : tasks[i] # "pending"

AsyGathered ==
    /\ AsyEnabled
    /\ asy.pc = "gather"
    /\ GatherReturns(asy.tasks)
    /\ asy' = [asy EXCEPT !.pc = "merge", !.i = 1, !.pages_with_data = 0]
    /\ UNCHANGED fail_budget
    /\ AsyFrame

\* a handler that gives up on a failed page as on a failed first page
AsyResetOnFailedPage(a) ==
    [a EXCEPT !.pc = "returned", !.fail_handled = TRUE, !.collected = <<>>,
              !.result = <<>>]

\* what the loop over results does with a failed page: warning, `continue`
AsyOnFailedPage(a) == [a EXCEPT !.i = @ + 1, !.fail_handled = TRUE]

\* a loop that takes a full page for the last one too
AsyOnPageStopAtFull(a, users, limit) ==
    LET a1 == IF users # <<>>
              THEN [a EXCEPT !.collected = @ \o users, !.pages_with_data = @ + 1]
              ELSE a
    IN IF Len(users) <= limit
       THEN [a1 EXCEPT !.pc = "returned", !.short_seen = TRUE, !.result = a1.collected]
       ELSE [a1 EXCEPT !.i = @ + 1]

\* what it does with the users of a fetched page
AsyOnPage(a, users, limit) ==
    LET a1 == IF users # <<>>
              THEN [a EXCEPT !.collected = @ \o users, !.pages_with_data = @ + 1]
              ELSE a
    IN IF Len(users) < limit
       THEN [a1 EXCEPT !.pc = "returned", !.short_seen = TRUE, !.result = a1.collected]
       ELSE [a1 EXCEPT !.i = @ + 1]

\* one iteration of `for i, result in enumerate(results)`
AsyMergeStep ==
    /\ AsyEnabled
    /\ asy.pc = "merge"
    /\ asy.i <= Len(asy.tasks)
    /\ asy' = IF asy.tasks[asy.i] = "fail"
              THEN AsyOnFailedPage(asy)
              ELSE AsyOnPage(asy,
                     extract_users_from_response(
                         UsersResponse(asy.page_numbers[asy.i], page_size)),
                     page_size)
    /\ UNCHANGED fail_budget
    /\ AsyFrame

\* after the loop over results: stop when no page had data, else next batch
AsyBatchEnd ==
    /\ AsyEnabled
    /\ asy.pc = "merge"
    /\ asy.i > Len(asy.tasks)
    /\ asy' = IF asy.pages_with_data = 0
              THEN [asy EXCEPT !.pc = "returned", !.result = asy.collected]
              ELSE [asy EXCEPT !.pc = "submit", !.page = @ + CONCURRENT_PAGES]
    /\ UNCHANGED fail_budget
    /\ AsyFrame

\* __main__: save_json(results, output_filename), then the script ends
AsyMain ==
    /\ AsyEnabled
    /\ asy.pc = "returned"
    /\ asy' = [asy EXCEPT !.pc = "exited"]
    /\ out_file' = <<"json", asy.result>>
    /\ exit_code' = 0
    /\ UNCHANGED <<env, idle, fail_budget, reported, seq, par>>

AsyNext ==
    \/ AsyStart \/ AsyFirstOk \/ AsyFirstFail \/ AsyFirstProcess \/ AsySubmit
    \/ (\E i \in 1..CONCURRENT_PAGES : AsyTaskOk(i))
    \/ (\E i \in 1..CONCURRENT_PAGES : AsyTaskFail(i))
    \/ AsyGathered \/ AsyMergeStep \/ AsyBatchEnd \/ AsyMain

-----------------------------------------------------------------------------
(* parallel_get_user: search_page_worker and find_user_parallel             *)

EstimatedPagesInit == 200
EstimateExtension == 100
max_empty_batches == 3

\* the worker's result tuple: <<page, []>> when the page holds no data, else
\* <<page, found_users, len(page_data)>>; arity is its length
search_page_worker(page, limit) ==
    LET page_data == PageData(limit, Offset(page, limit))
    IN IF page_data = <<>>
       THEN [arity |-> 2, page |-> page, is_dict |-> FALSE, found |-> <<>>, count |-> 0]
       ELSE [arity |-> 3, page |-> page, is_dict |-> TRUE,
             found |-> SearchSections(page_data,
                          [found |-> <<>>, stop |-> FALSE, examined |-> 0], 0, FALSE).found,
             count |-> Len(page_data)]

\* except Exception as e: return page, f"ERROR: {str(e)}", 0
WorkerError(page) ==
    [arity |-> 3, page |-> page, is_dict |-> FALSE, found |-> <<>>, count |-> 0]

IndexOfKey(found, uid) == CHOOSE i \in 1..Len(found) : found[i].user_id = uid

\* the merge of one user of a page's result into found_users
MergeEntry(found, e) ==
    IF e.user_id \notin KeySet(found)
    THEN Append(found, e)
    ELSE LET i == IndexOfKey(found, e.user_id)
         IN [found EXCEPT ![i].sections_found = @ \o e.sections_found,
                          ![i].matching_fields = @ \o e.matching_fields]

RECURSIVE MergeFound(_, _)
MergeFound(found, page_found) ==
    IF page_found = <<>> THEN found
    ELSE MergeFound(MergeEntry(found, Head(page_found)), Tail(page_found))

BatchSize(workers) == workers * 2

Min(a, b) == IF a < b THEN a ELSE b

\* a counter that takes every batch for an empty one
CountEveryBatch(ceb, any) == ceb + 1

\* consecutive_empty_batches after a batch
NextEmptyBatches(ceb, any) == IF ~any THEN ceb + 1 ELSE 0

\* estimated_pages after a batch
NextEstimate(est, page, batch_size, any) ==
    IF page >= est - batch_size /\ any THEN est + EstimateExtension ELSE est

ParInit ==
    [pc |-> "start", page |-> 0, estimated_pages |-> 0, batch_end |-> 0,
     consecutive_empty_batches |-> 0, found |-> <<>>, total |-> 0,
     tasks |-> <<>>, any |-> FALSE,
     submitted |-> {}, resubmitted |-> FALSE, handled |-> {},
     failed |-> FALSE, short_seen |-> FALSE, sigint |-> FALSE, result |-> <<>>]

ParEnabled ==
    /\ exit_code = -1
    /\ \/ variant = "par"
       \/ variant = "both" /\ seq.pc = "returned"

ParFrame == UNCHANGED <<env, idle, exit_code, reported, out_file, seq, asy>>

Running(tasks) == {p \in DOMAIN tasks : tasks[p] = "running"}
Unfinished(tasks) == {p \in DOMAIN tasks : tasks[p] \in {"queued", "running"}}
\* the futures of tasks that a pool process has taken, finished or not
Started(tasks) == {p \in DOMAIN tasks : tasks[p] \in {"running", "ok", "error"}}

\* the futures that as_completed yields: the worker has returned
Finished(tasks) == {p \in DOMAIN tasks : tasks[p] \in {"ok", "error"}}

ParStart ==
    /\ ParEnabled
    /\ par.pc = "start"
    /\ config.names
    /\ par' = [par EXCEPT !.pc = "loop", !.page = 1,
                          !.estimated_pages = EstimatedPagesInit]
    /\ UNCHANGED fail_budget
    /\ ParFrame

\* the while test; a batch of page tasks is submitted to the pool
ParLoop ==
    /\ ParEnabled
    /\ par.pc = "loop"
    /\ IF par.page <= par.estimated_pages
          /\ par.consecutive_empty_batches < max_empty_batches
       THEN LET batch_end == Min(par.page + BatchSize(max_workers) - 1, par.estimated_pages)
            IN par' = [par EXCEPT
                         !.pc = "batch",
                         !.batch_end = batch_end,
                         !.any = FALSE,
                         !.tasks = [p \in par.page..batch_end |-> "queued"],
                         !.resubmitted = @ \/ (par.page..batch_end) \cap par.submitted # {},
                         !.submitted = @ \cup (par.page..batch_end)]
       ELSE par' = [par EXCEPT !.pc = "after_loop"]
    /\ UNCHANGED fail_budget
    /\ ParFrame

\* the pool hands out the work items in the order of their submission, which
\* is the order of the pages
NextQueued(tasks, p) ==
    /\ tasks[p] = "queued"
    /\ \A q \in DOMAIN tasks : tasks[q] = "queued" => p <= q

\* a pool process takes a queued task
ParWorkerStart(p) ==
    /\ ParEnabled
    /\ par.pc \in {"batch", "drain"}
    /\ p \in DOMAIN par.tasks
    /\ NextQueued(par.tasks, p)
    /\ Cardinality(Running(par.tasks)) < max_workers
    /\ par' = [par EXCEPT !.tasks[p] = "running"]
    /\ UNCHANGED fail_budget
    /\ ParFrame

\* search_page_worker returns a result
ParWorkerOk(p) ==
    /\ ParEnabled
    /\ par.pc \in {"batch", "drain"}
    /\ p \in DOMAIN par.tasks
    /\ par.tasks[p] = "running"
    /\ par' = [par EXCEPT !.tasks[p] = "ok"]
    /\ UNCHANGED fail_budget
    /\ ParFrame

\* the fetch raises inside the worker, which returns the error tuple
ParWorkerFail(p) ==
    /\ ParEnabled
    /\ par.pc \in {"batch", "drain"}
    /\ p \in DOMAIN par.tasks
    /\ par.tasks[p] = "running"
    /\ fail_budget > 0
    /\ fail_budget' = fail_budget - 1
    /\ par' = [par EXCEPT !.tasks[p] = "error", !.failed = TRUE]
    /\ ParFrame

\* `if len(result) == 3` takes the normal branch; the else branch unpacks
\* three values and raises ValueError on any other length
ResultBranch(result) == IF result.arity = 3 THEN "normal" ELSE "error_raises"

\* what the worker of the page did: it raised, it found the page empty, or
\* it searched the page
WorkerOutcome(task, page, limit) ==
    IF task = "error" THEN "exception"
    ELSE IF PageData(limit, Offset(page, limit)) = <<>> THEN "no_data"
    ELSE "searched"

\* the body of `for future in as_completed(...)` for one result
ParHandleResult(f, result, limit, maxu, early) ==
    IF ResultBranch(result) = "normal"
    THEN LET merged == IF result.is_dict /\ result.found # <<>>
                       THEN MergeFound(f.found, result.found) ELSE f.found
         IN [f EXCEPT
               !.total = @ + result.count,
               !.any = @ \/ result.count > 0,
               !.short_seen = @ \/ (result.is_dict /\ result.count < limit),
               !.found = merged,
               !.pc = IF result.is_dict /\ result.found # <<>>
                         /\ early /\ Len(merged) >= maxu
                      THEN "drain" ELSE f.pc]
    ELSE \* the 3-way unpacking in the else branch raises; the except logs it
         [f EXCEPT !.short_seen = TRUE]

ParMerge(p) ==
    /\ ParEnabled
    /\ par.pc = "batch"
    /\ p \in Finished(par.tasks)
    /\ LET result == IF par.tasks[p] = "error" THEN WorkerError(p)
                     ELSE search_page_worker(p, page_size)
           f == ParHandleResult(par, result, page_size, max_users, early_exit)
       IN par' = [f EXCEPT !.tasks[p] = "merged",
                           !.handled = @ \cup
                               {[worker |-> WorkerOutcome(par.tasks[p], p, page_size),
                                 branch |-> ResultBranch(result)]}]
    /\ UNCHANGED fail_budget
    /\ ParFrame

\* every future has been handled: the `with` block ends
ParBatchDone ==
    /\ ParEnabled
    /\ par.pc = "batch"
    /\ \A p \in DOMAIN par.tasks : par.tasks[p] = "merged"
    /\ par' = [par EXCEPT !.pc = "batch_end"]
    /\ UNCHANGED fail_budget
    /\ ParFrame

\* after the early-exit break the `with` block waits for the pool to finish
ParDrained ==
    /\ ParEnabled
    /\ par.pc = "drain"
    /\ Unfinished(par.tasks) = {}
    /\ par' = [par EXCEPT !.pc = "batch_end"]
    /\ UNCHANGED fail_budget
    /\ ParFrame

\* lines after the `with` block, to `page = batch_end + 1`
ParBatchEnd ==
    /\ ParEnabled
    /\ par.pc = "batch_end"
    /\ LET ceb == NextEmptyBatches(par.consecutive_empty_batches, par.any)
       IN IF early_exit /\ Len(par.found) >= max_users
          THEN par' = [par EXCEPT !.pc = "after_loop", !.tasks = <<>>,
                                  !.consecutive_empty_batches = ceb]
          ELSE par' = [par EXCEPT
                         !.pc = "loop", !.tasks = <<>>,
                         !.consecutive_empty_batches = ceb,
                         !.estimated_pages =
                             NextEstimate(@, par.page, BatchSize(max_workers), par.any),
                         !.page = par.batch_end + 1]
    /\ UNCHANGED fail_budget
    /\ ParFrame

ParFinish ==
    /\ ParEnabled
    /\ par.pc = "after_loop"
    /\ par' = [par EXCEPT !.pc = "returned", !.result = Keys(par.found)]
    /\ UNCHANGED fail_budget
    /\ ParFrame

ParNext ==
    \/ ParStart \/ ParLoop
    \/ (\E p \in DOMAIN par.tasks : ParWorkerStart(p))
    \/ (\E p \in DOMAIN par.tasks : ParWorkerOk(p))
    \/ (\E p \in DOMAIN par.tasks : ParWorkerFail(p))
    \/ (\E p \in DOMAIN par.tasks : ParMerge(p))
    \/ ParBatchDone \/ ParDrained \/ ParBatchEnd \/ ParFinish

-----------------------------------------------------------------------------
(* get_25_users: __main__, fetch_users, display_users                       *)

MaxClock == 1

G25Init ==
    [pc |-> "start", signed |-> FALSE, sent |-> <<>>, outcome |-> "none"]

G25Enabled == variant = "g25" /\ exit_code = -1

G25Frame ==
    UNCHANGED <<env, fail_budget, reported, out_file, seq, asy, par, gu, sg, ex, pub>>

\* sys.exit(message) and an uncaught exception both end the process with
\* status 1
G25Exit(outcome) ==
    /\ g25' = [g25 EXCEPT !.pc = "exited", !.outcome = outcome]
    /\ exit_code' = 1

\* if system not in API_MAP: sys.exit("[ERROR] Unknown system ...")
G25UnknownSystem ==
    /\ G25Enabled
    /\ g25.pc = "start"
    /\ config.system \notin Systems
    /\ G25Exit("unknown_system")
    /\ G25Frame

\* the request is built; a TypeError of the signer is caught by nobody
G25Build ==
    /\ G25Enabled
    /\ g25.pc = "start"
    /\ config.system \in Systems
    /\ \E now \in 0..MaxClock :
         LET request == fetch_users_25(config.system, now)
         IN IF request.raised # NotRaised
            THEN /\ g25' = [g25 EXCEPT !.pc = "exited", !.outcome = request.raised,
                                       !.signed = request.signed # <<>>]
                 /\ exit_code' = 1
            ELSE /\ g25' = [g25 EXCEPT !.pc = "request", !.signed = TRUE,
                                       !.sent = Append(@, request)]
                 /\ UNCHANGED exit_code
    /\ G25Frame

\* requests.get, raise_for_status and response.json succeed: return data
G25ResponseOk ==
    /\ G25Enabled
    /\ g25.pc = "request"
    /\ g25' = [g25 EXCEPT !.pc = "display", !.outcome = "ok"]
    /\ UNCHANGED exit_code
    /\ G25Frame

\* except HTTPError / RequestException / ValueError: sys.exit("[ERROR] ...")
G25ResponseError(e) ==
    /\ G25Enabled
    /\ g25.pc = "request"
    /\ G25Exit(e)
    /\ G25Frame

\* display_users(results, system); the script ends
G25Display ==
    /\ G25Enabled
    /\ g25.pc = "display"
    /\ g25' = [g25 EXCEPT !.pc = "exited"]
    /\ exit_code' = 0
    /\ G25Frame

G25Next ==
    \/ G25UnknownSystem \/ G25Build \/ G25ResponseOk
    \/ (\E e \in {"HTTPError", "RequestException", "ValueError"} : G25ResponseError(e))
    \/ G25Display

-----------------------------------------------------------------------------
(* get_user: __main__ and find_user, one activity of the record set a step  *)

GetUserLimit == 2000

GuInit ==
    [pc |-> "start", data |-> <<>>, s |-> 1, a |-> 1,
     st |-> [found |-> <<>>, stop |-> FALSE, examined |-> 0],
     failed |-> FALSE, result |-> <<>>]

GuEnabled == variant = "getuser" /\ exit_code = -1

GuFrame ==
    UNCHANGED <<env, exit_code, reported, out_file, seq, asy, par, g25, sg, ex, pub>>

\* __main__: FIRSTNAME or LASTNAME is not set, exit(1)
GuNamesMissing ==
    /\ GuEnabled
    /\ gu.pc = "start"
    /\ ~config.names
    /\ gu' = [gu EXCEPT !.pc = "config_exit"]
    /\ exit_code' = 1
    /\ UNCHANGED <<env, fail_budget, reported, out_file, seq, asy, par, g25, sg, ex, pub>>

\* all_data = far.get_user_data(limit=2000)
GuFetchOk ==
    /\ GuEnabled
    /\ gu.pc = "start"
    /\ config.names
    /\ gu' = [gu EXCEPT !.pc = "search", !.data = PageData(GetUserLimit, 0)]
    /\ UNCHANGED fail_budget
    /\ GuFrame

\* the fetch raises: except Exception, "Error searching for ...", return None
GuFetchFail ==
    /\ GuEnabled
    /\ gu.pc = "start"
    /\ config.names
    /\ fail_budget > 0
    /\ fail_budget' = fail_budget - 1
    /\ gu' = [gu EXCEPT !.pc = "returned", !.failed = TRUE]
    /\ GuFrame

\* one iteration of `for activity in activities`, or the end of a section
\* with the early-exit test of the outer loop
GuSearchStep ==
    /\ GuEnabled
    /\ gu.pc = "search"
    /\ gu.s <= Len(gu.data)
    /\ ~gu.st.stop
    /\ LET r == gu.data[gu.s]
       IN IF r.is_section /\ gu.a <= Len(r.activities)
          THEN gu' = [gu EXCEPT !.a = @ + 1,
                                !.st = SearchActivity(r.activities[gu.a], r.name, gu.st,
                                                     max_users, early_exit)]
          ELSE gu' = [gu EXCEPT !.s = @ + 1, !.a = 1,
                                !.st.stop = EarlyExitReached(early_exit,
                                               Len(gu.st.found), max_users)]
    /\ UNCHANGED fail_budget
    /\ GuFrame

\* after the loops: the ids found are returned, or the last-name search is
\* logged and None is returned
GuAfterLoop ==
    /\ GuEnabled
    /\ gu.pc = "search"
    /\ gu.s > Len(gu.data) \/ gu.st.stop
    /\ gu' = [gu EXCEPT !.pc = "returned", !.result = Keys(gu.st.found)]
    /\ UNCHANGED fail_budget
    /\ GuFrame

\* __main__ logs the outcome; the script ends
GuMain ==
    /\ GuEnabled
    /\ gu.pc = "returned"
    /\ gu' = [gu EXCEPT !.pc = "exited"]
    /\ exit_code' = 0
    /\ UNCHANGED <<env, fail_budget, reported, out_file, seq, asy, par, g25, sg, ex, pub>>

GuNext == GuFetchOk \/ GuFetchFail \/ GuSearchStep \/ GuAfterLoop \/ GuMain

-----------------------------------------------------------------------------
(* Calls of the two signers: get_all_users.generate_auth_header twice with  *)
(* the same arguments at two moments, then get_25_users.generate_auth_header *)

NoCall == AuthResult("", <<>>, <<>>, <<>>)

SgInit ==
    [pc |-> "start", method |-> "GET", request_string |-> <<>>, timestamp |-> <<>>,
     public_key |-> "", private_key |-> "",
     now |-> <<>>, first |-> NoCall, second |-> NoCall, other |-> NoCall]

\* the arguments and the key material the signers are called with
SgMethods == {"GET", "POST"}
SgRequestStrings == {<<"/users">>, LimitPageQuery(<<"/users">>, 1, 2)}
SgPublicKeys == {"pk", "pk2"}
SgPrivateKeys == {"sk", "sk2"}

SgInputs ==
    {[SgInit EXCEPT !.method = t[1], !.request_string = t[2],
                    !.timestamp = Strftime(t[3]),
                    !.public_key = t[4], !.private_key = t[5]] :
        t \in SgMethods \X SgRequestStrings \X (0..MaxClock)
               \X SgPublicKeys \X SgPrivateKeys}

SgFrame ==
    UNCHANGED <<env, fail_budget, exit_code, reported, out_file, seq, asy, par, g25, gu, ex, pub>>

\* generate_auth_header(method, request_string, timestamp) of get_all_users,
\* called at second `now` of the clock
SgCall(now) ==
    /\ variant = "sign"
    /\ sg.pc \in {"start", "once"}
    /\ LET result == generate_auth_header(sg.method, sg.request_string,
                                          <<sg.timestamp>>, now,
                                          <<sg.public_key>>, <<sg.private_key>>)
       IN sg' = IF sg.pc = "start"
                THEN [sg EXCEPT !.pc = "once", !.first = result, !.now = Append(@, now)]
                ELSE [sg EXCEPT !.pc = "twice", !.second = result, !.now = Append(@, now)]
    /\ SgFrame

\* generate_auth_header(method, request_string) of get_25_users
SgCall25(now) ==
    /\ variant = "sign"
    /\ sg.pc = "twice"
    /\ sg' = [sg EXCEPT !.pc = "done", !.now = Append(@, now),
                        !.other = get25_generate_auth_header(
                                      sg.method, sg.request_string, now,
                                      <<sg.public_key>>, <<sg.private_key>>)]
    /\ SgFrame

SgNext == \E now \in 0..MaxClock : SgCall(now) \/ SgCall25(now)

-----------------------------------------------------------------------------
(* __main__ after the search returned, and the SIGINT handlers              *)

\* __main__ of paginated_get_user and parallel_get_user: FIRSTNAME or LASTNAME
\* is not set, exit(1)
SeqNamesMissing ==
    /\ variant = "seq"
    /\ exit_code = -1
    /\ seq.pc = "start"
    /\ ~config.names
    /\ seq' = [seq EXCEPT !.pc = "config_exit"]
    /\ exit_code' = 1
    /\ UNCHANGED <<env, idle, fail_budget, reported, out_file, asy, par>>

ParNamesMissing ==
    /\ variant = "par"
    /\ exit_code = -1
    /\ par.pc = "start"
    /\ ~config.names
    /\ par' = [par EXCEPT !.pc = "config_exit"]
    /\ exit_code' = 1
    /\ UNCHANGED <<env, idle, fail_budget, reported, out_file, seq, asy>>

\* paginated_get_user __main__: the summary is logged and the script ends
SeqMain ==
    /\ variant = "seq"
    /\ exit_code = -1
    /\ seq.pc = "returned"
    /\ seq' = [seq EXCEPT !.pc = "exited"]
    /\ exit_code' = 0
    /\ UNCHANGED <<env, idle, fail_budget, reported, out_file, asy, par>>

\* parallel_get_user __main__
ParMain ==
    /\ variant = "par"
    /\ exit_code = -1
    /\ par.pc = "returned"
    /\ par' = [par EXCEPT !.pc = "exited"]
    /\ exit_code' = 0
    /\ UNCHANGED <<env, idle, fail_budget, reported, out_file, seq, asy>>

\* an except clause catches an exception of its class or of a subclass;
\* SystemExit, KeyboardInterrupt and GeneratorExit derive from BaseException
\* and not from Exception
CatchesBare(clause, exc) == TRUE

Catches(clause, exc) ==
    \/ clause = "BaseException"
    \/ clause = exc
    \/ clause = "Exception"
        /\ exc \notin {"SystemExit", "KeyboardInterrupt", "GeneratorExit"}

\* the except clauses around the page loop of each script, innermost first
SeqExcepts == <<"Exception", "Exception">>
AsyExcepts == <<"Exception", "KeyboardInterrupt">>
ParExcepts == <<"Exception", "Exception">>

\* sys.exit(130) in the handler raises SystemExit in the main thread: the
\* process ends with status 130 unless a clause on the way out catches it
SignalExit(clauses, code) ==
    IF \E k \in DOMAIN clauses : Catches(clauses[k], "SystemExit")
    THEN code ELSE 130

\* get_all_users.signal_handler: save collected_users when there are any
AsySaveOnInterrupt(file, collected) ==
    IF collected # <<>> THEN <<"json", collected>> ELSE file

AsyInterrupt ==
    /\ variant = "async"
    /\ exit_code = -1
    /\ out_file' = AsySaveOnInterrupt(out_file, asy.collected)
    /\ asy' = [asy EXCEPT !.sigint = TRUE]
    /\ exit_code' = SignalExit(AsyExcepts, exit_code)
    /\ UNCHANGED <<env, idle, fail_budget, reported, seq, par>>

\* paginated_get_user.signal_handler: display found_users_global
SeqInterrupt ==
    /\ variant = "seq"
    /\ exit_code = -1
    /\ reported' = Keys(seq.found)
    /\ seq' = [seq EXCEPT !.sigint = TRUE]
    /\ exit_code' = SignalExit(SeqExcepts, exit_code)
    /\ UNCHANGED <<env, idle, fail_budget, out_file, asy, par>>

\* parallel_get_user.signal_handler
ParInterrupt ==
    /\ variant = "par"
    /\ exit_code = -1
    /\ reported' = Keys(par.found)
    /\ par' = [par EXCEPT !.sigint = TRUE]
    /\ exit_code' = SignalExit(ParExcepts, exit_code)
    /\ UNCHANGED <<env, idle, fail_budget, out_file, seq, asy>>

-----------------------------------------------------------------------------
(* Runs *)

Hit(pos, uid, kind) == [pos |-> pos, uid |-> uid, kind |-> kind]

\* where a source of n sections read with pages of p may name the target
Layouts(n, p) ==
    LET cand == {1, p + 1, n} \cap (1..n)
    IN {{}}
       \cup {{Hit(a, 1, "name")} : a \in cand}
       \cup {{Hit(1, 1, "name"), Hit(t[1], t[2], "whole")} : t \in (cand \ {1}) \X {1, 2}}

\* (early_exit, max_users) pairs: max_users only matters with early exit
Options == {<<FALSE, 1>>} \cup {<<TRUE, m>> : m \in 1..MaxUsersOpt}

Run(n, p, hits, opt, workers, fails) ==
    [n |-> n, p |-> p, hits |-> hits, early |-> opt[1], maxu |-> opt[2],
     workers |-> workers, fails |-> fails]

\* sources of every small size, nobody named, exhaustive search
SizeRuns(fails) ==
    {Run(t[1], t[2], {}, <<FALSE, 1>>, 1, fails) :
        t \in (0..MaxSmallN) \X (1..MaxSmallP)}

\* fixed sources with the target named in every layout, under every option
HitSources == {<<3, 1>>, <<4, 2>>}

HitRuns(opts, workers, fails) ==
    UNION {{Run(s[1], s[2], t[1], t[2], workers, fails) :
                t \in Layouts(s[1], s[2]) \X opts} : s \in HitSources}

\* sources that reach the hard-coded stop of the sequential page loop
LargeSources == {<<56, 1>>, <<82, 27>>}

LargeRuns(fails) ==
    {Run(t[1][1], t[1][2], IF t[2] THEN {Hit(t[1][1], 1, "name")} ELSE {},
         <<FALSE, 1>>, 1, fails) : t \in LargeSources \X BOOLEAN}

\* a source beyond the estimate of the process-parallel search
LongRuns == {Run(305, 1, {}, <<FALSE, 1>>, 1, 0)}

\* a pool of two processes on a source of four one-record pages
WideRuns ==
    {Run(4, 1, t[1], t[2], 2, 0) : t \in Layouts(4, 1) \X Options}

SeqRuns == SizeRuns(MaxFailures) \cup HitRuns(Options, 1, MaxFailures)
           \cup LargeRuns(MaxFailures)

AsyncRuns ==
    {Run(t[1], t[2], {}, <<FALSE, 1>>, 1, MaxFailures) :
        t \in (0..MaxAsyncN) \X (1..MaxSmallP)}

ParRuns == SizeRuns(MaxFailures) \cup HitRuns(Options, 1, MaxFailures)
           \cup LongRuns \cup WideRuns

\* the same mocked source searched by the sequential and then by the
\* process-parallel script, exhaustively and without fetch failures
BothRuns == SizeRuns(0) \cup HitRuns({<<FALSE, 1>>}, 1, 0) \cup LargeRuns(0)

\* the run in which a script is started with a value of its configuration
\* missing
ConfigRun == Run(1, 1, {}, <<FALSE, 1>>, 1, 0)

KeyNames == {"public_key", "private_key", "tenant_id", "database_id"}

MissingOne(system, names) == {Without(FullConfig(system), n) : n \in names}

InitRun(v, r, c) ==
    /\ variant = v
    /\ config = c
    /\ src_n = r.n
    /\ page_size = r.p
    /\ src_hits = r.hits
    /\ early_exit = r.early
    /\ max_users = r.maxu
    /\ max_workers = r.workers
    /\ fail_budget = r.fails
    /\ exit_code = -1
    /\ reported = <<>>
    /\ out_file = <<"absent">>
    /\ seq = SeqInit
    /\ asy = AsyInit
    /\ par = ParInit
    /\ g25 = G25Init
    /\ gu = GuInit
    /\ sg \in IF v = "sign" THEN SgInputs ELSE {SgInit}
    /\ ex \in IF v = "extract" THEN ExInputs ELSE {ExInit}
    /\ pub \in IF v = "pubs" THEN PubInputs ELSE {PubInit}

NamesMissing == Without(FullConfig("FAR"), "names")

InitSeq == \E r \in SeqRuns : InitRun("seq", r, FullConfig("FAR"))

InitAsync ==
    \E r \in AsyncRuns, system \in Systems : InitRun("async", r, FullConfig(system))

InitPar == \E r \in ParRuns : InitRun("par", r, FullConfig("FAR"))

InitBoth == \E r \in BothRuns : InitRun("both", r, FullConfig("FAR"))

Init == InitSeq \/ InitAsync \/ InitPar \/ InitBoth

Next ==
    \/ SeqNext \/ SeqMain \/ SeqInterrupt
    \/ AsyNext \/ AsyInterrupt
    \/ ParNext \/ ParMain \/ ParInterrupt

Spec == Init /\ [][Next]_vars

\* the steps of the scripts themselves, the SIGINT handlers left out
ProgramNext == SeqNext \/ SeqMain \/ AsyNext \/ ParNext \/ ParMain

\* ENABLED <<ProgramNext>>_vars written out: the script has not exited, the
\* back-to-back run has not finished its second search, and the sequential
\* loop is not held at the request bound of the model
ProgramCanStep ==
    /\ exit_code = -1
    /\ ~(variant = "both" /\ par.pc = "returned")
    /\ ~(variant \in {"seq", "both"} /\ seq.pc = "fetch"
          /\ Len(seq.requested) >= MaxSeqRequests)

\* weak fairness of ProgramNext: a running script keeps executing, every
\* network call returns or raises, every worker process finishes its page
ProgramFairness == <>[]ProgramCanStep => []<><<ProgramNext>>_vars

FairSpec == Spec /\ ProgramFairness

\* ProgramCanStep implies that a step of the script is possible: this
\* specification has no deadlock
SpecNoDeadlock == Init /\ [][ProgramNext \/ (~ProgramCanStep /\ UNCHANGED vars)]_vars

SpecSeq == InitSeq /\ [][SeqNext \/ SeqMain \/ SeqInterrupt]_vars

SpecAsync == InitAsync /\ [][AsyNext \/ AsyInterrupt]_vars

SpecPar == InitPar /\ [][ParNext \/ ParMain \/ ParInterrupt]_vars

\* the scripts started with a value of the configuration missing: the
\* search scripts without a name to search, get_all_users without a key
InitAsyncConfig ==
    \E system \in Systems :
        \E c \in MissingOne(system, KeyNames) : InitRun("async", ConfigRun, c)

InitConfig ==
    \/ \E v \in {"seq", "par", "getuser"} : InitRun(v, ConfigRun, NamesMissing)
    \/ InitAsyncConfig

\* get_25_users started on each system, known or not, with its configuration
\* complete or one value missing

\* sources of two sections, each holding one activity of one kind, read in
\* one page or in two
MatchOptions == {<<FALSE, 1>>, <<TRUE, 1>>}

\* the kinds of the second activity
SecondKinds == {"exact_name", "exact_title", "other"}

MatchRuns(fails) ==
    {Run(2, t[1], {Hit(1, t[2][1], t[2][2]), Hit(2, t[3][1], t[3][2])}, t[4], 1, fails) :
        t \in (1..2) \X ((0..1) \X CaseKinds) \X ((1..2) \X SecondKinds)
               \X MatchOptions}

\* the three search scripts on these sources, and the sequential search
\* followed by the parallel one; page fetches may fail where the first
\* activity is an exact match in a name field
InitMatch ==
    \E v \in {"seq", "par", "getuser", "both"} :
        \/ \E r \in MatchRuns(0) : InitRun(v, r, FullConfig("FAR"))
        \/ \E r \in MatchRuns(MaxFailures) :
              /\ \E h \in r.hits : h.pos = 1 /\ h.uid = 1 /\ h.kind = "exact_name"
              /\ InitRun(v, r, FullConfig("FAR"))

MatchNext == SeqNext \/ SeqMain \/ ParNext \/ ParMain \/ GuNext

SpecMatch == InitMatch /\ [][MatchNext]_vars

InitSign == InitRun("sign", ConfigRun, FullConfig("FAR"))

SpecSign == InitSign /\ [][SgNext]_vars

InitExtract == InitRun("extract", ConfigRun, FullConfig("FAR"))

SpecExtract == InitExtract /\ [][ExCall]_vars

InitPubs == InitRun("pubs", ConfigRun, FullConfig("FAR"))

SpecPubs == InitPubs /\ [][PubCall]_vars

G25Systems == Systems \cup {"XX"}

InitG25 ==
    \E system \in G25Systems :
        \E c \in {FullConfig(system)} \cup MissingOne(system, KeyNames) :
            InitRun("g25", ConfigRun, c)


\* every script of the repository, on every run above
InitScripts == Init \/ InitMatch \/ InitConfig \/ InitG25

\* the steps taken only when a value of the configuration is missing
ConfigNext == SeqNamesMissing \/ ParNamesMissing \/ GuNamesMissing \/ AsyFirstRaised

ScriptsNext == Next \/ GuNext \/ G25Next \/ ConfigNext

SpecScripts == InitScripts /\ [][ScriptsNext]_vars

\* the two scripts that sign their requests themselves, on every system,
\* with the configuration complete or one value missing
InitRequests == InitAsync \/ InitAsyncConfig \/ InitG25

SpecRequests ==
    InitRequests /\ [][AsyNext \/ AsyFirstRaised \/ AsyInterrupt \/ G25Next]_vars

-----------------------------------------------------------------------------
(* Properties *)

IsPrefix(a, b) == Len(a) <= Len(b) /\ SubSeq(b, 1, Len(a)) = a

Range(f) == {f[i] : i \in DOMAIN f}

CeilDiv(a, b) == (a + b - 1) \div b

Max(a, b) == IF a > b THEN a ELSE b

\* the page loop of paginated_get_user.find_user has ended
SeqLoopEnded == variant = "seq" /\ seq.pc \in {"after_loop", "returned", "exited"}

\* C1: with early exit disabled and no fetch error, every section of the
\* source has been passed to search_batch_for_user when the page loop ends
C1_EverySectionSearched ==
    (SeqLoopEnded /\ ~early_exit /\ ~seq.failed) => seq.searched = 1..src_n

\* C2 as stated: the sequential loop issues exactly ceil(N/P) page requests
C2_CeilPageRequests ==
    (SeqLoopEnded /\ ~early_exit /\ ~seq.failed /\ src_n >= 1)
        => Len(seq.requested) = CeilDiv(src_n, page_size)

\* the first page of size p at which the hard-coded stop applies
SafetyStopPage(p) == Max(2, CeilDiv(ApparentTotal, p) + 1)

\* C2 amended: the loop issues floor(N/P) + 1 page requests, the last one
\* answered by a short or empty page, unless the hard-coded stop at offset
\* 54 ends it first, after max(2, ceil(54/P) + 1) requests
C2_PageRequests ==
    (SeqLoopEnded /\ ~early_exit /\ ~seq.failed /\ src_n >= 1)
        => Len(seq.requested) =
              Min(src_n \div page_size + 1, SafetyStopPage(page_size))

\* an exact multiple of the page size has been read to its end
C2_Witness ==
    /\ SeqLoopEnded /\ ~early_exit /\ ~seq.failed
    /\ src_n >= 1 /\ src_n % page_size = 0
    /\ Len(seq.requested) = src_n \div page_size + 1
    /\ seq.searched = 1..src_n


\* C3: in every fetch variant, once the orchestrator has processed a page
\* with fewer than page_size records it submits no further page request
C3_ShortPageEndsRequests ==
    [][/\ seq.short_seen => seq.requested' = seq.requested
       /\ asy.short_seen => asy.requested' = asy.requested
       /\ par.short_seen => par.submitted' = par.submitted]_vars

LoopReturned ==
    \/ variant = "seq" /\ seq.pc \in {"returned", "exited"}
    \/ variant = "async" /\ asy.pc \in {"returned", "exited"}
    \/ variant \in {"par", "both"} /\ par.pc \in {"returned", "exited"}

\* C4: on a finite source, under any pattern of page-fetch failures, every
\* fetch loop eventually stops requesting pages and returns (unless the run
\* is interrupted first), also when estimated_pages has to be extended
C4_EveryLoopReturns == <>(LoopReturned \/ exit_code = 130)

\* the process-parallel search has read past its estimate, twice
C4_Witness ==
    /\ variant = "par" /\ par.pc = "returned"
    /\ src_n > EstimatedPagesInit * page_size
    /\ par.estimated_pages >= EstimatedPagesInit + 2 * EstimateExtension
    /\ 1..src_n \subseteq par.submitted

\* C5: on the same source, without failures and with early exit disabled,
\* the sequential and the process-parallel search return the same set of
\* user ids
C5_SameFoundSet ==
    (variant = "both" /\ par.pc = "returned") => Range(seq.result) = Range(par.result)

\* the request for page 1 of get_all_users failed
AsyFirstFailed == asy.failed /\ asy.page = 0

\* C6 as stated: after a failed page neither loop requests or collects
\* anything more
C6_FailureStopsLoop ==
    [][/\ seq.failed => (seq.requested' = seq.requested /\ seq.found' = seq.found)
       /\ (AsyFirstFailed \/ asy.fail_handled)
            => (asy.requested' = asy.requested /\ asy.collected' = asy.collected)]_vars

\* C6 amended: in paginated_get_user a failed page ends the loop, with None
\* when nothing was found and else with the ids found before it, and nothing
\* is requested afterwards; in get_all_users a failed first page returns []
\* at once, while a failed page of a later batch is skipped: the loop keeps
\* what it collected, may collect further pages, and returns collected_users
C6_FailureHandling ==
    /\ [][seq.failed => (seq.requested' = seq.requested /\ seq.found' = seq.found)]_vars
    /\ [](seq.failed /\ seq.pc \in {"returned", "exited"}
            => (seq.result = Keys(seq.found) /\ ~seq.fallback))
    /\ [](AsyFirstFailed
            => /\ asy.pc \in {"returned", "exited"}
               /\ asy.result = <<>> /\ asy.collected = <<>> /\ asy.requested = <<1>>)
    /\ [][asy.fail_handled => IsPrefix(asy.collected, asy.collected')]_vars
    /\ [](asy.fail_handled /\ asy.pc \in {"returned", "exited"}
            => asy.result = asy.collected)

\* the sequential search returned what it had found when a later page failed
C6_Witness ==
    /\ variant = "seq" /\ seq.failed /\ seq.pc = "returned"
    /\ seq.result # <<>> /\ Len(seq.requested) >= 2

\* every entry of found_users f is still in g, with nothing removed from it
EntriesKept(f, g) ==
    \A i \in 1..Len(f) :
        \E j \in 1..Len(g) :
            /\ g[j].user_id = f[i].user_id
            /\ IsPrefix(f[i].sections_found, g[j].sections_found)
            /\ IsPrefix(f[i].matching_fields, g[j].matching_fields)

\* C7: in the concurrent variants a failed page never loses what earlier
\* pages contributed: the accumulator only grows once a fetch has failed,
\* and the value returned holds all of it
C7_FailureKeepsAccumulator ==
    /\ [][asy.failed => IsPrefix(asy.collected, asy.collected')]_vars
    /\ [][par.failed => EntriesKept(par.found, par.found')]_vars
    /\ [](asy.failed /\ asy.pc \in {"returned", "exited"} => asy.result = asy.collected)
    /\ [](par.failed /\ par.pc \in {"returned", "exited"} => par.result = Keys(par.found))

\* get_all_users returned the pages collected around a failed page
C7_Witness ==
    /\ variant = "async" /\ asy.fail_handled /\ asy.pc = "returned"
    /\ Len(asy.collected) >= 2 * page_size
    /\ asy.result = asy.collected

\* the activity is one the matcher records
IsMatch(a) == UserIdOf(a) # 0 /\ HasNameFields(a.fields) /\ MatchActivity(a).found

SectionMatches(i) ==
    \E k \in 1..Len(SectionAt(i).activities) : IsMatch(SectionAt(i).activities[k])

\* the first section of the source that holds a match, 0 when none does
FirstMatchSection ==
    IF \E i \in 1..src_n : SectionMatches(i)
    THEN CHOOSE i \in 1..src_n :
            SectionMatches(i) /\ \A j \in 1..(i - 1) : ~SectionMatches(j)
    ELSE 0

RECURSIVE ActivitiesBefore(_)
ActivitiesBefore(i) ==
    IF i <= 1 THEN 0 ELSE Len(SectionAt(i - 1).activities) + ActivitiesBefore(i - 1)

\* activities of the source up to and including its first match
ActivitiesThroughFirstMatch ==
    LET acts == SectionAt(FirstMatchSection).activities
    IN ActivitiesBefore(FirstMatchSection)
       + (CHOOSE k \in 1..Len(acts) :
             IsMatch(acts[k]) /\ \A j \in 1..(k - 1) : ~IsMatch(acts[j]))

SeqStopAtFirst == variant = "seq" /\ early_exit /\ max_users = 1 /\ seq.found # <<>>

\* C8: with early_exit and max_users = 1, once the first match is recorded
\* no further activity is examined and no further page is requested: the
\* pages after the page of the first match are never fetched
C8_EarlyExitStopsAtFirstMatch ==
    /\ [][SeqStopAtFirst => /\ seq.requested' = seq.requested
                            /\ seq.examined' = seq.examined
                            /\ seq.found' = seq.found]_vars
    /\ [](SeqStopAtFirst =>
            /\ Len(seq.found) = 1
            /\ Len(seq.requested) = (FirstMatchSection - 1) \div page_size + 1
            /\ seq.examined = ActivitiesThroughFirstMatch
            /\ ~seq.fallback)

\* the search returned after a first match that is not on the last page
C8_Witness ==
    /\ SeqStopAtFirst /\ seq.pc = "returned"
    /\ Len(seq.requested) >= 2
    /\ Len(seq.requested) * page_size < src_n
    /\ seq.examined < ActivitiesBefore(src_n + 1)

\* C9: an interrupt of get_all_users after a page returned records leaves
\* the output file holding a non-empty JSON array equal to collected_users
\* as it was at the interrupt
C9_InterruptSavesAccumulated ==
    (variant = "async" /\ exit_code = 130 /\ asy.got_records)
        => (out_file = <<"json", asy.collected>> /\ asy.collected # <<>>)

PageHasUsers(page) == Offset(page, page_size) < src_n

\* get_all_users is inside the loop over a batch's results: an earlier page
\* of the batch is merged, a later one with users is not
AsyPartialBatch ==
    /\ variant = "async" /\ asy.pc = "merge"
    /\ \E j \in 1..(asy.i - 1) :
          asy.tasks[j] = "ok" /\ PageHasUsers(asy.page_numbers[j])
    /\ \E k \in asy.i..Len(asy.tasks) :
          asy.tasks[k] = "ok" /\ PageHasUsers(asy.page_numbers[k])

\* parallel_get_user is inside the as_completed loop: a page that found
\* users is merged, another page with users of the same batch is not
ParPartialBatch ==
    /\ variant = "par" /\ par.pc = "batch"
    /\ \E p \in DOMAIN par.tasks :
          par.tasks[p] = "merged" /\ search_page_worker(p, page_size).found # <<>>
          /\ Range(Keys(search_page_worker(p, page_size).found)) \subseteq KeySet(par.found)
    /\ \E q \in DOMAIN par.tasks :
          /\ par.tasks[q] \in {"queued", "running", "ok"}
          /\ ~(Range(Keys(search_page_worker(q, page_size).found)) \subseteq KeySet(par.found))

\* C10: the accumulator saved or reported on interrupt always reflects whole
\* batches of pages, never a batch merged in part
C10_InterruptAtBatchBoundary ==
    exit_code = 130 => ~(AsyPartialBatch \/ ParPartialBatch)

\* the SIGINT handler of the running script has been entered
Interrupted == seq.sigint \/ asy.sigint \/ par.sigint

\* C11: whenever SIGINT is delivered to get_all_users, paginated_get_user or
\* parallel_get_user after the handler was installed, the process ends with
\* exit code 130, whatever the main loop was doing
C11_InterruptExits130 == Interrupted => exit_code = 130

\* the interrupt arrived while a page worker of the pool was still running
\* and another page of the batch was already merged
C11_Witness ==
    /\ variant = "par" /\ par.sigint /\ exit_code = 130
    /\ par.pc = "batch"
    /\ Running(par.tasks) # {}
    /\ \E p \in DOMAIN par.tasks : par.tasks[p] = "merged"

\* the run ended on a fetch failure it could not recover from: the first
\* page of get_all_users, a page of paginated_get_user with nothing found,
\* an HTTP, transport or JSON error of get_25_users
EndedOnFetchFailure ==
    \/ variant = "async" /\ AsyFirstFailed
    \/ variant = "seq" /\ seq.failed /\ seq.found = <<>>
    \/ variant = "g25" /\ g25.outcome \in {"HTTPError", "RequestException", "ValueError"}

\* C12: a run that ends because of an unrecoverable fetch failure exits with
\* a nonzero code; only a run that completed normally exits with 0
C12_FetchFailureExitsNonzero == EndedOnFetchFailure => exit_code # 0

\* a value the running script needs is not set: a key, the tenant id of the
\* RPT and FS paths or the database id of FAR for the two user listings,
\* the name to search for the three search scripts
MissingRequired ==
    IF variant \in {"async", "g25"}
    THEN \/ ~config.public_key
         \/ ~config.private_key
         \/ config.system \in {"RPT", "FS"} /\ ~config.tenant_id
         \/ config.system = "FAR" /\ ~config.database_id
    ELSE ~config.names

\* C13: a missing required configuration value is fatal: the script exits
\* with a nonzero code before any request is signed or sent and before any
\* output file is written
C13_MissingConfigIsFatal ==
    MissingRequired
        => /\ exit_code # 0
           /\ out_file = <<"absent">>
           /\ asy.sent = <<>> /\ g25.sent = <<>> /\ ~g25.signed

\* the header the contract prescribes for a verb, a path+query, a timestamp
\* and a key pair
ContractHeader(method, request_string, timestamp, public_key, private_key) ==
    <<"INTF ", public_key, ":">>
    \o B64(HmacSha1(private_key,
                    <<method, "\n", "\n", "\n">> \o timestamp \o <<"\n">>
                        \o request_string))

\* C14: get_all_users.generate_auth_header returns ('INTF ' + PUBLIC_KEY +
\* ':' + base64(HMAC-SHA1(PRIVATE_KEY, method + 3 newlines + timestamp +
\* newline + request_string)), timestamp); a second call with the same
\* arguments and keys returns the same pair whatever the clock shows; and
\* get_25_users.generate_auth_header, called in the second the timestamp
\* names, signs the same canonical string and builds the same header
C14_SignatureDeterministic ==
    /\ sg.pc # "start"
        => /\ sg.first.raised = NotRaised
           /\ sg.first.timestamp = sg.timestamp
           /\ sg.first.header = ContractHeader(sg.method, sg.request_string,
                                    sg.timestamp, sg.public_key, sg.private_key)
    /\ sg.pc \in {"twice", "done"} => sg.second = sg.first
    /\ (sg.pc = "done" /\ sg.other.timestamp = sg.timestamp)
        => (sg.other.signed = sg.first.signed /\ sg.other.header = sg.first.header)

\* the two calls were made in different seconds, neither of them the second
\* of the timestamp, and get_25_users signed in the second of the timestamp
C14_Witness ==
    /\ sg.pc = "done"
    /\ sg.now[1] # sg.now[2]
    /\ Strftime(sg.now[1]) # sg.timestamp
    /\ sg.other.timestamp = sg.timestamp
    /\ sg.request_string # <<"/users">>

\* the canonical string read back as the server reads it: the timestamp
\* stands between the third and the fourth newline, the path+query after
\* the fourth
NewlinesOf(signed) == {i \in 1..Len(signed) : signed[i] = "\n"}

NthNewline(signed, n) ==
    CHOOSE p \in NewlinesOf(signed) :
        Cardinality({q \in NewlinesOf(signed) : q < p}) = n - 1

SignedTimestamp(signed) ==
    SubSeq(signed, NthNewline(signed, 3) + 1, NthNewline(signed, 4) - 1)

SignedPathQuery(signed) == SubSeq(signed, NthNewline(signed, 4) + 1, Len(signed))

HeaderNames(request) == {request.headers[k].name : k \in 1..Len(request.headers)}

HeaderValue(request, name) ==
    request.headers[CHOOSE k \in 1..Len(request.headers) :
                        request.headers[k].name = name].value

\* what every request has in common: the URL is the host followed by the
\* signed path+query, the TimeStamp header is the signed timestamp
SignedAsSent(request) ==
    /\ request.url = ApiHost(request.system) \o SignedPathQuery(request.signed)
    /\ HeaderValue(request, "TimeStamp") = SignedTimestamp(request.signed)

\* the path+query of the request for `page` of `limit` records
PagePathQuery(system, limit, page) ==
    ApiRequestString(system, Getenv("tenant_id"))
    \o <<"?limit=">> \o IntStr(limit) \o <<"&page=">> \o IntStr(page)

\* C15: for every request of get_all_users.fetch_page and of
\* get_25_users.fetch_users the signed path+query is exactly what follows
\* the host in the URL (limit and page included, in this order), the
\* TimeStamp header is the signed timestamp, and every page request is
\* signed on its own with its own page number
C15_SignedEqualsRequested ==
    /\ \A k \in 1..Len(asy.sent) :
          /\ SignedAsSent(asy.sent[k])
          /\ SignedPathQuery(asy.sent[k].signed)
                = PagePathQuery(config.system, page_size, asy.requested[k])
    /\ \A k \in 1..Len(g25.sent) :
          /\ SignedAsSent(g25.sent[k])
          /\ SignedPathQuery(g25.sent[k].signed)
                = ApiRequestString(config.system, Getenv("tenant_id"))

\* the second batch of pages went out: page 10 has two digits, and its
\* request was signed in a later second than the request for page 1
C15_Witness ==
    /\ variant = "async"
    /\ Len(asy.sent) >= 10
    /\ asy.requested[10] = 10
    /\ SignedTimestamp(asy.sent[10].signed) # SignedTimestamp(asy.sent[1].signed)

\* the header dict of a request names TimeStamp, Authorization and Accept
\* with the value application/json, and INTF-DatabaseID exactly for FAR
HeadersAsRequired(request) ==
    /\ {"TimeStamp", "Authorization", "Accept"} \subseteq HeaderNames(request)
    /\ HeaderValue(request, "Accept") = <<"application/json">>
    /\ HeaderValue(request, "Authorization") # <<>>
    /\ HeaderValue(request, "TimeStamp") # <<>>
    /\ ("INTF-DatabaseID" \in HeaderNames(request)) <=> (request.system = "FAR")
    /\ HeaderNames(request)
          \subseteq {"TimeStamp", "Authorization", "Accept", "INTF-DatabaseID"}

\* C16: every request built by get_all_users.fetch_page and by
\* get_25_users.fetch_users carries the headers TimeStamp, Authorization and
\* Accept: application/json, and carries INTF-DatabaseID if and only if the
\* selected system is FAR
C16_RequiredHeaders ==
    /\ \A k \in 1..Len(asy.sent) : HeadersAsRequired(asy.sent[k])
    /\ \A k \in 1..Len(g25.sent) : HeadersAsRequired(g25.sent[k])

\* get_all_users has sent a batch of page requests to FAR, each naming the
\* database
C16_Witness ==
    /\ variant = "async" /\ config.system = "FAR"
    /\ Len(asy.sent) > CONCURRENT_PAGES
    /\ \A k \in 1..Len(asy.sent) :
          HeaderValue(asy.sent[k], "INTF-DatabaseID") = <<EnvValue("database_id")>>

\* the search of the running script is over without a fetch failure, and
\* the mapping it built
SearchDone ==
    \/ variant = "seq" /\ seq.pc \in {"after_loop", "returned", "exited"} /\ ~seq.failed
    \/ variant = "par" /\ par.pc \in {"returned", "exited"} /\ ~par.failed
    \/ variant = "getuser" /\ gu.pc \in {"returned", "exited"} /\ ~gu.failed

FoundUsers ==
    IF variant = "seq" THEN seq.found
    ELSE IF variant = "par" THEN par.found
    ELSE gu.st.found

\* the activity has a user id and a string field whose value contains the
\* exact "First Last" of the target
HasExactField(a) ==
    /\ UserIdOf(a) # 0
    /\ \E k \in 1..Len(a.fields) :
          a.fields[k].isstr /\ Contains(FIRSTNAME \o <<" ">> \o LASTNAME, a.fields[k].value)

\* the activities of the source
SourceActivities ==
    UNION {Range(SectionAt(i).activities) : i \in 1..src_n}

\* the mapping holds the user id with at least one matching-field entry
FoundWithField(found, uid) ==
    \E k \in 1..Len(found) : found[k].user_id = uid /\ found[k].matching_fields # <<>>

\* C17: when the record set holds an activity with a user id and a string
\* field containing the exact 'First Last', the mapping of the matcher
\* contains that user id with at least one matching-field entry, whatever
\* the key of the field and whatever other fields the activity has
C17_ExactNameIsFound ==
    SearchDone =>
        \A a \in SourceActivities :
            HasExactField(a) => FoundWithField(FoundUsers, UserIdOf(a))

\* the lowercased string form of the activity contains a name variation
WholeRecordHit(a) == UserIdOf(a) # 0 /\ AnyVariationIn(Lower(ActivityStr(a)))

\* C18: every activity with a user id goes through the first pass over the
\* name-like fields and then, when none matched, through the search of the
\* whole record: any activity whose lowercased string form contains a name
\* variation is recorded as a match (exhaustive search)
C18_WholeRecordFallback ==
    (SearchDone /\ ~early_exit) =>
        \A a \in SourceActivities :
            WholeRecordHit(a) => UserIdOf(a) \in KeySet(FoundUsers)

\* the entry of the user id in the mapping
EntryOf(found, uid) == found[IndexOfKey(found, uid)]

\* two activities of different sections carry the user id, pass the gate
\* and match
MatchedTwice(uid) ==
    \E i, j \in 1..src_n :
        /\ i < j
        /\ \A k \in {i, j} :
              \E a \in Range(SectionAt(k).activities) :
                  UserIdOf(a) = uid /\ HasNameFields(a.fields) /\ MatchActivity(a).found

\* C19: first match per user id wins. In the sequential variants an entry of
\* found_users, once written, is never modified or replaced: every step
\* leaves the mapping a prefix of the new one. In the parallel variant a
\* later page's match for an id already present only appends to the
\* sections and matching fields of the entry, and nothing is discarded
C19_FirstMatchWins ==
    [][/\ IsPrefix(seq.found, seq.found')
       /\ IsPrefix(gu.st.found, gu.st.found')
       /\ EntriesKept(par.found, par.found')]_vars

\* the sequential search has met a second matching activity of a user id it
\* had stored from section 1, and the parallel search has merged the second
\* page's match into the entry of the first
C19_Witness ==
    /\ variant = "both"
    /\ par.pc = "returned"
    /\ ~early_exit
    /\ \E uid \in KeySet(seq.found) \cap KeySet(par.found) :
          /\ MatchedTwice(uid)
          /\ EntryOf(seq.found, uid).sections_found = <<SectionAt(1).name>>
          /\ Len(EntryOf(par.found, uid).sections_found) = 2

\* the orchestrator of get_all_users extends collected_users with the users
\* of one fetched page: the first page, or the result at asy.i once gather
\* has returned with no task pending
AsyOrchestratorWrite ==
    /\ asy.tasks' = asy.tasks
    /\ \A i \in 1..Len(asy.tasks) : asy.tasks[i] # "pending"
    /\ \/ /\ asy.pc = "first_got"
          /\ asy.collected' = asy.collected
                 \o extract_users_from_response(UsersResponse(1, page_size))
       \/ /\ asy.pc = "merge"
          /\ asy.i \in 1..Len(asy.tasks)
          /\ asy.tasks[asy.i] = "ok"
          /\ asy.collected' = asy.collected
                 \o extract_users_from_response(
                        UsersResponse(asy.page_numbers[asy.i], page_size))

\* the orchestrator of parallel_get_user merges the result of one page whose
\* worker has returned, and no worker moves in the same step
ParOrchestratorWrite ==
    \E p \in DOMAIN par.tasks :
        /\ par.tasks[p] = "ok"
        /\ par.tasks' = [par.tasks EXCEPT ![p] = "merged"]
        /\ par.found' = MergeFound(par.found, search_page_worker(p, page_size).found)

\* C20: in the async and process-parallel variants no worker writes the
\* shared accumulator (collected_users, found_users): every change of it is
\* made by the orchestrator, from the complete result of one page that a
\* worker has returned, so no two execution units write it concurrently
C20_OnlyOrchestratorWrites ==
    [][/\ asy.collected' # asy.collected => AsyOrchestratorWrite
       /\ par.found' # par.found => ParOrchestratorWrite]_vars

\* the orchestrator has merged the match of one page into found_users while
\* a pool process is still working on another page of the batch
C20_Witness ==
    /\ variant = "par"
    /\ par.pc = "batch"
    /\ par.found # <<>>
    /\ \E p \in DOMAIN par.tasks : par.tasks[p] = "merged"
    /\ Running(par.tasks) # {}

\* no value stands at two places of the sequence
NoDuplicates(q) == \A i, j \in 1..Len(q) : q[i] = q[j] => i = j

\* C21: no request is retried: within one run of fetch_users_concurrent, of
\* the page loop of paginated_get_user.find_user or of find_user_parallel
\* every page number is requested at most once, failed pages included
C21_NoRetry ==
    /\ NoDuplicates(seq.requested)
    /\ NoDuplicates(asy.requested)
    /\ ~par.resubmitted

\* a page of a concurrent batch failed, the run went on to merge the pages
\* after it and has returned
C21_Witness ==
    /\ variant = "async"
    /\ asy.pc = "returned"
    /\ asy.failed /\ asy.fail_handled
    /\ asy.collected # <<>>
    /\ Len(asy.requested) > 1

\* the mappings of found users and the lists returned hold at most m entries
AtMostUsers(m) ==
    /\ Len(seq.found) <= m /\ Len(seq.result) <= m
    /\ Len(gu.st.found) <= m /\ Len(gu.result) <= m
    /\ Len(par.found) <= m /\ Len(par.result) <= m

\* C22: max_users is the maximum number of users found before stopping: with
\* early_exit true and max_users >= 1 the mapping of found users never holds
\* more than max_users entries and the list returned has at most max_users
\* user ids, in get_user, paginated_get_user and parallel_get_user
C22_MaxUsersBound ==
    (early_exit /\ max_users >= 1) => AtMostUsers(max_users)

\* C23: an exhaustive search (early_exit false) with MAX_USERS = m finds up
\* to m users: the list of user ids returned by find_user and by
\* find_user_parallel has at most m entries
C23_ExhaustiveFindsUpToMax ==
    ~early_exit =>
        /\ Len(seq.result) <= max_users
        /\ Len(gu.result) <= max_users
        /\ Len(par.result) <= max_users

\* the page requests of get_all_users that have been sent and not answered
AsyOutstanding ==
    IF asy.pc = "first_fetch" THEN 1
    ELSE Cardinality({i \in 1..Len(asy.tasks) : asy.tasks[i] = "pending"})

\* C24: the concurrent fetch uses a fixed in-flight window: at every moment
\* of fetch_users_concurrent at most CONCURRENT_PAGES page requests are
\* outstanding, and a new batch is started only after every request of the
\* previous batch has completed or failed; in parallel_get_user at most
\* max_workers page fetches run at the same time
C24_FixedWindow ==
    /\ [](/\ AsyOutstanding <= CONCURRENT_PAGES
          /\ Cardinality(Running(par.tasks)) <= max_workers)
    /\ [][asy.page_numbers' # asy.page_numbers => AsyOutstanding = 0]_vars

\* a second batch of CONCURRENT_PAGES requests is in flight, none answered
C24_Witness ==
    /\ variant = "async"
    /\ asy.pc = "gather"
    /\ asy.page > 2
    /\ AsyOutstanding = CONCURRENT_PAGES

WrapperKeys == <<"data", "users", "results">>

\* the wrapper keys the dict holds, in priority order
PresentWrappers(entries) == SelectSeq(WrapperKeys, LAMBDA k : DictHas(entries, k))

\* the value the claim gives for the response
ExpectedUsers(page_data) ==
    IF page_data.type = "list" THEN page_data.items
    ELSE IF page_data.type = "dict" /\ PresentWrappers(page_data.entries) # <<>>
    THEN page_data.entries[DictGet(page_data.entries,
                                   Head(PresentWrappers(page_data.entries)))].value
    ELSE IF page_data.type = "dict" /\ page_data.entries # <<>> THEN <<page_data>>
    ELSE <<>>

\* C25: extract_users_from_response returns a list of records for every
\* response shape: a list as it is; for a dict with one of the wrapper keys
\* 'data', 'users', 'results' the value of the first of them present, in this
\* priority order; for any other non-empty dict the one-element list holding
\* it; for an empty dict or any other value the empty list
C25_ExtractReturnsList ==
    ex.pc = "returned" =>
        /\ ex.returned.type = "list"
        /\ ex.returned.value = ExpectedUsers(ex.page_data)

\* C26: the orchestrator of find_user_parallel classifies the worker results
\* correctly: the result a worker returned after an exception is handled by
\* the error branch and never by the normal branch, and the result for a page
\* with no data is handled by the normal branch as an empty page and never
\* raises
C26_ResultsClassified ==
    \A h \in par.handled :
        /\ h.worker = "exception" => h.branch = "error"
        /\ h.worker = "no_data" => h.branch = "normal"

\* the orchestrator handles the result of page p
ParMerges(p) ==
    /\ p \in DOMAIN par.tasks /\ p \in DOMAIN par'.tasks
    /\ par.tasks[p] \in {"ok", "error"} /\ par'.tasks[p] = "merged"

\* C27: consecutive_empty_batches counts the batches processed since the last
\* batch in which some page returned data, such a batch resets it to 0, and
\* the loop submits no further batch once it has reached max_empty_batches:
\* at most 3 batches are submitted after the last batch that contained data
C27_EmptyBatchLimit ==
    [][/\ \A p \in DOMAIN par.tasks :
             ParMerges(p) =>
                 (par'.any <=> (par.any \/ WorkerOutcome(par.tasks[p], p, page_size)
                                              = "searched"))
       /\ (par.pc = "batch_end" /\ par'.pc # "batch_end") =>
             par'.consecutive_empty_batches =
                 IF par.any THEN 0 ELSE par.consecutive_empty_batches + 1
       /\ (par.pc = "loop" /\ par'.pc = "batch") =>
             (~par'.any /\ par.consecutive_empty_batches < max_empty_batches)
       /\ par'.consecutive_empty_batches <= max_empty_batches]_vars

\* the search met data, then max_empty_batches batches without any, and the
\* loop has ended
C27_Witness ==
    /\ variant = "par"
    /\ par.pc = "returned"
    /\ par.total > 0
    /\ par.consecutive_empty_batches = max_empty_batches

\* the (title, year) pair of a publication
PubKey(p) == <<p.title, p.year>>

\* the publication-like input activities of the user, simplified, the
\* activities of the profile before the comprehensive ones
PubCandidates ==
    Simplified(SelectSeq(ListOr(pub.profile.activities, pub.profile.publications),
                         is_publication))
    \o Simplified(SelectSeq(pub.all_activities,
                    LAMBDA a : /\ UserIdStr(a.user_id) = UserIdStr(pub.user_id)
                               /\ is_publication(a)))

\* the place of the first candidate with the pair
FirstWithKey(cands, key) ==
    CHOOSE j \in 1..Len(cands) :
        /\ PubKey(cands[j]) = key
        /\ \A i \in 1..(j - 1) : PubKey(cands[i]) # key

\* C28: get_user_publications de-duplicates by (title, year): the list
\* returned never holds two entries with the same pair, it keeps the first
\* occurrence of each pair in the original order, profile activities before
\* comprehensive ones, and every pair of a publication-like input activity
\* of the user appears in it exactly once
C28_DedupeByTitleYear ==
    pub.pc = "returned" =>
        LET pubs == pub.returned.publications
            cands == PubCandidates
        IN /\ \A i, j \in 1..Len(pubs) : PubKey(pubs[i]) = PubKey(pubs[j]) => i = j
           /\ \A i \in 1..Len(pubs) :
                 /\ \E j \in 1..Len(cands) : PubKey(cands[j]) = PubKey(pubs[i])
                 /\ pubs[i] = cands[FirstWithKey(cands, PubKey(pubs[i]))]
           /\ \A i, j \in 1..Len(pubs) :
                 i < j => FirstWithKey(cands, PubKey(pubs[i]))
                              < FirstWithKey(cands, PubKey(pubs[j]))
           /\ \A j \in 1..Len(cands) :
                 Cardinality({i \in 1..Len(pubs) : PubKey(pubs[i]) = PubKey(cands[j])}) = 1

\* the same pair came from the profile and, with another type, from the
\* comprehensive activities, next to a second pair; two publications returned
C28_Witness ==
    /\ pub.pc = "returned"
    /\ Len(PubCandidates) = 3
    /\ Len(pub.returned.publications) = 2
    /\ PubKey(PubCandidates[1]) = PubKey(PubCandidates[3])
    /\ PubCandidates[1] # PubCandidates[3]

\* the records of the source in ascending order
AllRecords == [k \in 1..src_n |-> k]

\* C29: with a finite source of N records, any page size P >= 1 and no fetch
\* failure, fetch_users_concurrent returns every one of the N records exactly
\* once, in ascending page order, also when N is a multiple of P and when the
\* last record falls in the middle of a concurrent batch
C29_AllRecordsOnce ==
    (variant = "async" /\ asy.pc \in {"returned", "exited"}
        /\ ~asy.failed /\ ~asy.raised /\ ~asy.sigint)
    => asy.result = AllRecords

\* the last record was the second page of the second batch and the size of
\* the source a multiple of the page size
C29_Witness ==
    /\ variant = "async"
    /\ asy.pc = "returned"
    /\ ~asy.failed /\ ~asy.raised /\ ~asy.sigint
    /\ src_n = 7 * page_size
    /\ Len(asy.requested) = 1 + 2 * CONCURRENT_PAGES
    /\ Len(asy.result) = src_n

\* the orchestrator's handling of the pages p..last when the futures complete
\* in page order: merge, then the early-exit test
RECURSIVE InPageOrder(_, _, _)
AfterPage(p, last, merged) ==
    IF early_exit /\ Len(merged) >= max_users THEN merged
    ELSE InPageOrder(p + 1, last, merged)

InPageOrder(p, last, found) ==
    IF p > last THEN found
    ELSE AfterPage(p, last, MergeFound(found, search_page_worker(p, page_size).found))

\* what find_user_parallel finds when every future completes in page order
FoundInPageOrder == InPageOrder(1, CeilDiv(src_n, page_size), <<>>)

Count(x, q) == Cardinality({i \in 1..Len(q) : q[i] = x})

SameMultiset(a, b) ==
    /\ Len(a) = Len(b)
    /\ \A i \in 1..Len(a) : Count(a[i], a) = Count(a[i], b)

\* the same user ids and, per user id, the same sections and matching fields
SameEvidence(f, g) ==
    /\ KeySet(f) = KeySet(g)
    /\ \A uid \in KeySet(f) :
          /\ SameMultiset(EntryOf(f, uid).sections_found, EntryOf(g, uid).sections_found)
          /\ SameMultiset(EntryOf(f, uid).matching_fields, EntryOf(g, uid).matching_fields)

ParReturnedClean ==
    /\ variant = "par"
    /\ par.pc = "returned"
    /\ ~par.failed /\ ~par.sigint

\* C30: the result of find_user_parallel does not depend on the order in
\* which the worker futures complete: with early_exit false every completion
\* order yields the user ids, sections and matching fields of the completion
\* in page order, and with early_exit true the same set of user ids
C30_OrderIndependent ==
    ParReturnedClean =>
        IF early_exit
        THEN Range(par.result) = KeySet(FoundInPageOrder)
        ELSE SameEvidence(par.found, FoundInPageOrder)

====
